---------------------------- MODULE Spec2Model ----------------------------
(***************************************************************************)
(* Audit-target pipeline of the CloudWatch Application Signals MCP server: *)
(* wildcard / fuzzy expansion, normalization, validation and enrichment,   *)
(* batched backend execution and result aggregation.                       *)
(*                                                                         *)
(* Python strings on which the code does character work (names, patterns)  *)
(* are sequences of one-character strings.  JSON values are tagged         *)
(* records: [str |-> chars], [dict |-> function from key to value],        *)
(* [none |-> TRUE].  Dictionary keys and type tags are TLA+ strings.       *)
(***************************************************************************)
EXTENDS Integers, Sequences, FiniteSets, TLC

(***************************************************************************)
(* Python string primitives                                                *)
(***************************************************************************)

\* str.lower() on one character
LowerChar(c) ==
    CASE c = "A" -> "a" [] c = "B" -> "b" [] c = "C" -> "c" [] c = "D" -> "d"
      [] c = "E" -> "e" [] c = "F" -> "f" [] c = "G" -> "g" [] c = "H" -> "h"
      [] c = "I" -> "i" [] c = "J" -> "j" [] c = "K" -> "k" [] c = "L" -> "l"
      [] c = "M" -> "m" [] c = "N" -> "n" [] c = "O" -> "o" [] c = "P" -> "p"
      [] c = "Q" -> "q" [] c = "R" -> "r" [] c = "S" -> "s" [] c = "T" -> "t"
      [] c = "U" -> "u" [] c = "V" -> "v" [] c = "W" -> "w" [] c = "X" -> "x"
      [] c = "Y" -> "y" [] c = "Z" -> "z" [] OTHER -> c

\* str.lower()
Lower(s) == [i \in 1..Len(s) |-> LowerChar(s[i])]

\* `c in s` for a one-character c
HasChar(s, c) == \E i \in 1..Len(s) : s[i] = c

\* `needle in hay` (substring test; the empty string is in every string)
Contains(hay, needle) ==
    \E i \in 0..(Len(hay) - Len(needle)) :
        SubSeq(hay, i + 1, i + Len(needle)) = needle

\* str.strip(chars): drop the leading and trailing characters that are in cs
StripChars(s, cs) ==
    LET keep == {i \in 1..Len(s) : s[i] \notin cs}
    IN  IF keep = {} THEN <<>>
        ELSE LET lo == CHOOSE i \in keep : \A j \in keep : i <= j
                 hi == CHOOSE i \in keep : \A j \in keep : j <= i
             IN  SubSeq(s, lo, hi)

Whitespace == {" ", "\t"}

\* str.strip()
Strip(s) == StripChars(s, Whitespace)

\* str.replace(a, b) for one-character a and b
ReplaceChar(s, a, b) == [i \in 1..Len(s) |-> IF s[i] = a THEN b ELSE s[i]]

\* set(str.split()): the maximal runs of non-whitespace characters
SplitWords(s) ==
    {SubSeq(s, i, j) : <<i, j>> \in
        {p \in (1..Len(s)) \X (1..Len(s)) :
            /\ p[1] <= p[2]
            /\ \A k \in p[1]..p[2] : s[k] \notin Whitespace
            /\ (p[1] = 1 \/ s[p[1] - 1] \in Whitespace)
            /\ (p[2] = Len(s) \/ s[p[2] + 1] \in Whitespace)}}

\* the search term of a wildcard pattern:
\* pattern.strip('*').lower() if pattern != '*' else ''
SearchTerm(pattern) ==
    IF pattern = <<"*">> THEN <<>> ELSE Lower(StripChars(pattern, {"*"}))

\* search_term == '' or search_term in name.lower()
TermMatches(term, name) == term = <<>> \/ Contains(Lower(name), term)

Max2(a, b) == IF a >= b THEN a ELSE b

Min2(a, b) == IF a <= b THEN a ELSE b

Abs(a) == IF a >= 0 THEN a ELSE 0 - a

(***************************************************************************)
(* calculate_name_similarity                                               *)
(***************************************************************************)

SloKeyTerms ==
    { <<"a","v","a","i","l","a","b","i","l","i","t","y">>,
      <<"l","a","t","e","n","c","y">>, <<"e","r","r","o","r">>,
      <<"f","a","u","l","t">>, <<"s","e","a","r","c","h">>,
      <<"o","w","n","e","r">>, <<"r","e","s","p","o","n","s","e">>,
      <<"t","i","m","e">>, <<"s","u","c","c","e","s","s">>,
      <<"f","a","i","l","u","r","e">>, <<"r","e","q","u","e","s","t">>,
      <<"o","p","e","r","a","t","i","o","n">> }

ServiceKeyTerms ==
    { <<"s","e","r","v","i","c","e">>, <<"a","p","i">>, <<"w","e","b">>,
      <<"a","p","p">>, <<"b","a","c","k","e","n","d">>,
      <<"f","r","o","n","t","e","n","d">>,
      <<"d","a","t","a","b","a","s","e">>, <<"c","a","c","h","e">>,
      <<"q","u","e","u","e">>, <<"w","o","r","k","e","r">>,
      <<"l","a","m","b","d","a">>, <<"f","u","n","c","t","i","o","n">>,
      <<"m","i","c","r","o","s","e","r","v","i","c","e">> }

\* the points for the words two names share, tw and cw being their word sets
WordPoints(tw, cw) ==
    LET points(nc) ==
            ((nc * 60) \div Cardinality(tw \cup cw))
            + (IF nc * 5 >= 4 * Cardinality(tw) THEN 20
               ELSE IF nc * 5 >= 3 * Cardinality(tw) THEN 10 ELSE 0)
    IN  IF tw # {} /\ cw # {} /\ (tw \cap cw) # {}
        THEN points(Cardinality(tw \cap cw)) ELSE 0

\* the points for one name being a substring of the other
SubstringPoints(tn, cn) ==
    IF Contains(cn, tn) THEN (Len(tn) * 30) \div Len(cn)
    ELSE IF Contains(tn, cn) THEN (Len(cn) * 25) \div Len(tn)
    ELSE 0

\* the penalty for names of very different length, and the cap at 100
Penalised(score, length_diff) ==
    Min2(100, IF length_diff > 20 THEN Max2(0, score - 15)
              ELSE IF length_diff > 10 THEN Max2(0, score - 5)
              ELSE score)

\* the accumulated score of two distinct normalized names
SimilarityScore(tn, cn, name_type) ==
    LET key_terms == IF name_type = "slo" THEN SloKeyTerms ELSE ServiceKeyTerms
        common_key_terms ==
            Cardinality({k \in key_terms : Contains(tn, k) /\ Contains(cn, k)})
    IN  Penalised(WordPoints(SplitWords(tn), SplitWords(cn))
                      + SubstringPoints(tn, cn) + common_key_terms * 8,
                  Abs(Len(tn) - Len(cn)))

\* name.replace('_', '-').replace('.', '-')
NormalizedName(name) == ReplaceChar(ReplaceChar(name, "_", "-"), ".", "-")

\* the score of two stripped, lower-cased names
ScoreLowered(target_lower, candidate_lower, name_type) ==
    IF target_lower = <<>> \/ candidate_lower = <<>> THEN 0
    ELSE IF target_lower = candidate_lower THEN 100
    ELSE IF NormalizedName(target_lower) = NormalizedName(candidate_lower) THEN 95
    ELSE SimilarityScore(NormalizedName(target_lower),
                         NormalizedName(candidate_lower), name_type)

calculate_name_similarity(target_name, candidate_name, name_type) ==
    ScoreLowered(Strip(Lower(target_name)), Strip(Lower(candidate_name)), name_type)

(***************************************************************************)
(* JSON values and Python dictionaries                                     *)
(***************************************************************************)

Str(s) == [str |-> s]

Dict(d) == [dict |-> d]

None == [none |-> TRUE]

IsStr(v) == "str" \in DOMAIN v

IsDict(v) == "dict" \in DOMAIN v

IsNone(v) == "none" \in DOMAIN v

\* Python truthiness of a JSON value
Truthy(v) ==
    \/ IsStr(v) /\ v.str # <<>>
    \/ IsDict(v) /\ DOMAIN v.dict # {}

EmptyDict == Dict(<<>>)

\* `a or b`
Or(a, b) == IF Truthy(a) THEN a ELSE b

\* d.get(k, default) on the key-to-value function d
GetD(d, k, default) == IF k \in DOMAIN d THEN d[k] ELSE default

\* d.get(k)
Get(d, k) == GetD(d, k, None)

\* d[k] = v
SetKey(d, k, v) == [x \in DOMAIN d \cup {k} |-> IF x = k THEN v ELSE d[x]]

\* the dictionary with the keys whose value is set (the others left out)
Present(d) == [x \in {k \in DOMAIN d : ~IsNone(d[k])} |-> d[x]]

\* the dictionary keys that are equal once lower-cased
KeyClasses ==
    { {"Type", "type", "TYPE"}, {"Data", "data", "DATA"}, {"Service", "service"},
      {"Name", "name"}, {"Environment", "environment"},
      {"AwsAccountId", "awsAccountId"}, {"Slo", "slo"},
      {"SloArn", "sloArn", "sloarn"}, {"SloName", "sloName", "sloname"},
      {"ServiceOperation", "serviceOperation"}, {"Operation", "operation"},
      {"MetricType", "metricType"}, {"Id", "id"} }

\* k.lower() == name.lower()
SameKey(k, name) == k = name \/ \E c \in KeyClasses : k \in c /\ name \in c

\* '*' in str(v): a star anywhere in the printed value
RECURSIVE StarIn(_)
StarIn(v) ==
    IF IsStr(v) THEN HasChar(v.str, "*")
    ELSE IF IsDict(v) THEN \E k \in DOMAIN v.dict : StarIn(v.dict[k])
    ELSE FALSE

\* the outcome of a function that may raise
Ok(v) == [ok |-> TRUE, v |-> v]

Err(e) == [ok |-> FALSE, err |-> e]

sService == <<"s","e","r","v","i","c","e">>

sSlo == <<"s","l","o">>

sServiceOperation ==
    <<"s","e","r","v","i","c","e","_","o","p","e","r","a","t","i","o","n">>

cService == <<"S","e","r","v","i","c","e">>

cUnknown == <<"U","n","k","n","o","w","n">>

cLatency == <<"L","a","t","e","n","c","y">>

(***************************************************************************)
(* audit_services: helpers and normalizers                                 *)
(***************************************************************************)

\* the least element of a non-empty set of positions
First(S) == CHOOSE i \in S : \A j \in S : i <= j

\* the value under the first name d has exactly, else under the first name
\* it has up to letter case, else None
CiPick(d, names, exact, folded) ==
    IF exact # {} THEN d[names[First(exact)]]
    ELSE IF folded # {}
    THEN d[CHOOSE k \in DOMAIN d : SameKey(k, names[First(folded)])]
    ELSE None

\* _ci_get(d, *names) for the dictionary function d and the tuple names
_ci_get(d, names) ==
    CiPick(d, names,
           {i \in 1..Len(names) : names[i] \in DOMAIN d},
           {i \in 1..Len(names) : \E k \in DOMAIN d : SameKey(k, names[i])})

\* (v or "").lower()
LowerStr(v) == IF IsStr(v) THEN Lower(v.str) ELSE <<>>

\* the lower-cased type discriminant: (_ci_get(t, ...) or "").lower()
TypeOf(t, names) == LowerStr(_ci_get(t, names))

\* v if v else None
OrNone(v) == IF Truthy(v) THEN v ELSE None

\* the canonical target _coerce_service_target builds from the entity
CoercedTarget(entity) ==
    [Type |-> Str(sService),
     Data |-> Dict([Service |-> Dict(Present(
        [Type |-> Str(cService),
         Name |-> OrNone(_ci_get(entity, <<"Name", "name">>)),
         Environment |-> OrNone(_ci_get(entity, <<"Environment", "environment">>)),
         AwsAccountId |-> OrNone(_ci_get(entity,
                            <<"AwsAccountId", "awsAccountId", "aws_account_id">>))]))])]

\* the shapes of a service payload: a name, an entity, or Data.Name
CoerceService(service, dname) ==
    IF IsStr(service) THEN Ok(CoercedTarget([Name |-> service]))
    ELSE IF IsDict(service) THEN Ok(CoercedTarget(service.dict))
    ELSE IF Truthy(dname) THEN Ok(CoercedTarget([Name |-> dname]))
    ELSE Err("ValueError")

CoerceData(t, data) ==
    IF ~IsDict(data) THEN Err("AttributeError")
    ELSE CoerceService(Or(_ci_get(data.dict, <<"Service", "service">>),
                          _ci_get(t, <<"Service", "service">>)),
                       _ci_get(data.dict, <<"Name", "name">>))

_coerce_service_target(t) ==
    IF TypeOf(t, <<"Type", "type", "target_type">>) # sService THEN Err("ValueError")
    ELSE CoerceData(t, Or(_ci_get(t, <<"Data", "data">>), EmptyDict))

\* the entity built from its parts; the Name is required
ServiceEntity(name, acct, out) ==
    IF IsNone(name) THEN Err("ValueError")
    ELSE Ok(Dict(IF Truthy(acct) THEN SetKey(out, "AwsAccountId", acct) ELSE out))

_normalize_service_entity(entity) ==
    ServiceEntity(
        _ci_get(entity, <<"Name", "name">>),
        _ci_get(entity, <<"AwsAccountId", "awsAccountId", "aws_account_id">>),
        [Type |-> Or(_ci_get(entity, <<"Type", "type">>), Str(cService)),
         Name |-> _ci_get(entity, <<"Name", "name">>),
         Environment |-> _ci_get(entity, <<"Environment", "environment">>)])

\* the service target around a normalized entity, or the entity's error
WrapService(ent) ==
    IF ~ent.ok THEN ent
    ELSE Ok([Type |-> Str(sService), Data |-> Dict([Service |-> ent.v])])

\* Data.Service if it is an object, Data itself otherwise
ServiceFromData(data, svc) ==
    WrapService(_normalize_service_entity(IF IsDict(svc) THEN svc.dict
                                          ELSE data.dict))

_normalize_service(item) ==
    LET from(data) ==
            IF IsNone(data) THEN Err("ValueError")
            ELSE IF ~IsDict(data) THEN Err("AttributeError")
            ELSE ServiceFromData(data, _ci_get(data.dict, <<"Service", "service">>))
    IN  from(_ci_get(item, <<"Data", "data">>))

\* {"SloArn": slo_arn} if slo_arn else {"SloName": slo_name}
SloObj(slo_arn, slo_name) ==
    IF Truthy(slo_arn) THEN Dict([SloArn |-> slo_arn])
    ELSE Dict([SloName |-> slo_name])

\* {"Type": "slo", "Data": {"Slo": slo_obj}}
WrapSlo(slo_obj) == Ok([Type |-> Str(sSlo), Data |-> Dict([Slo |-> slo_obj])])

SloFromIdentifiers(slo_arn, slo_name) ==
    IF ~(Truthy(slo_arn) \/ Truthy(slo_name)) THEN Err("ValueError")
    ELSE WrapSlo(SloObj(slo_arn, slo_name))

\* the identifiers are read from the nested Slo object or from Data itself
SloFromSource(src) ==
    SloFromIdentifiers(_ci_get(src, <<"SloArn", "sloArn", "sloarn">>),
                       _ci_get(src, <<"SloName", "sloName", "sloname">>))

_normalize_slo(item) ==
    LET from(data) ==
            IF IsNone(data) THEN Err("ValueError")
            ELSE IF IsStr(data) THEN WrapSlo(Dict([SloName |-> data]))
            ELSE IF ~IsDict(data) THEN Err("ValueError")
            ELSE IF "Slo" \notin DOMAIN data.dict THEN SloFromSource(data.dict)
            ELSE IF IsDict(data.dict["Slo"])
            THEN SloFromSource(data.dict["Slo"].dict)
            ELSE Err("ValueError")
    IN  from(_ci_get(item, <<"Data", "data">>))

\* the service_operation target built from the normalized entity
ServiceOpTarget(ent, op, metric_type) ==
    IF ~ent.ok THEN ent
    ELSE IF ~Truthy(op) THEN Err("ValueError")
    ELSE Ok([Type |-> Str(sServiceOperation),
             Data |-> Dict([ServiceOperation |->
                        Dict([Service |-> ent.v,
                              Operation |-> op,
                              MetricType |-> metric_type])])])

ServiceOpFromParts(svc, op, metric_type) ==
    IF IsNone(svc) THEN Err("ValueError")
    ELSE ServiceOpTarget(IF IsDict(svc) THEN _normalize_service_entity(svc.dict)
                         ELSE Err("AttributeError"),
                         op, metric_type)

\* the parts are read from Data.ServiceOperation or from Data itself
ServiceOpFromSource(src) ==
    ServiceOpFromParts(_ci_get(src, <<"Service", "service">>),
                       _ci_get(src, <<"Operation", "operation">>),
                       Or(_ci_get(src, <<"MetricType", "metricType">>),
                          Str(cLatency)))

ServiceOpFromData(data, service_operation) ==
    IF ~Truthy(service_operation) THEN ServiceOpFromSource(data.dict)
    ELSE IF ~IsDict(service_operation) THEN Err("AttributeError")
    ELSE ServiceOpFromSource(service_operation.dict)

_normalize_service_op(item) ==
    LET from(data) ==
            IF IsNone(data) THEN Err("ValueError")
            ELSE IF ~IsDict(data) THEN Err("AttributeError")
            ELSE ServiceOpFromData(data,
                     _ci_get(data.dict, <<"ServiceOperation", "serviceOperation">>))
    IN  from(_ci_get(item, <<"Data", "data">>))

\* the branch of _normalize_targets on the type of the (coerced) item
NormalizeByType(item, ttype) ==
    IF ttype = sService THEN _normalize_service(item)
    ELSE IF ttype = sSlo THEN _normalize_slo(item)
    ELSE IF ttype = sServiceOperation THEN _normalize_service_op(item)
    ELSE Err("ValueError")

NormalizeCoerced(coerced) ==
    IF ~coerced.ok THEN coerced
    ELSE NormalizeByType(coerced.v, TypeOf(coerced.v, <<"Type", "type">>))

\* one iteration of the loop of _normalize_targets
NormalizeOne(raw) ==
    NormalizeCoerced(
        IF TypeOf(raw, <<"Type", "type", "target_type">>) = sService
        THEN _coerce_service_target(raw) ELSE Ok(raw))

\* the list of the normalized items, or the first error
NormalizedList(each) ==
    LET bad == {i \in 1..Len(each) : ~each[i].ok}
    IN  IF Len(each) = 0 THEN Err("ValueError")
        ELSE IF bad # {} THEN Err(each[First(bad)].err)
        ELSE Ok([i \in 1..Len(each) |-> each[i].v])

\* _normalize_targets(raw) for a list of JSON objects
_normalize_targets(raw) ==
    NormalizedList([i \in 1..Len(raw) |-> NormalizeOne(raw[i])])

(***************************************************************************)
(* Sequence helpers                                                        *)
(***************************************************************************)

\* the concatenation of a sequence of sequences
RECURSIVE Flatten(_)
Flatten(ss) == IF ss = <<>> THEN <<>> ELSE Head(ss) \o Flatten(Tail(ss))

\* s[:n]
Take(s, n) == SubSeq(s, 1, Min2(n, Len(s)))

\* list.sort(key=score, reverse=True): descending by score, and stable
SortByScoreDesc(s) ==
    LET rank(i) == 1 + Cardinality({j \in 1..Len(s) :
                        \/ s[j].score > s[i].score
                        \/ s[j].score = s[i].score /\ j < i})
    IN  [k \in 1..Len(s) |-> s[CHOOSE i \in 1..Len(s) : rank(i) = k]]

(***************************************************************************)
(* Catalog Service responses.  A service summary is its KeyAttributes, an  *)
(* SLO summary its fields: functions from key to character string, a key   *)
(* the response leaves out being absent from the domain.                   *)
(***************************************************************************)

\* attrs.get(k, '')
GetS(attrs, k) == IF k \in DOMAIN attrs THEN attrs[k] ELSE <<>>

\* attrs.get(k)
GetV(attrs, k) == IF k \in DOMAIN attrs THEN Str(attrs[k]) ELSE None

FuzzyMinScore == 30

FuzzyExactScore == 85

FuzzyMaxMatches == 3

\* every catalog entry with its score against the inexact name
ScoredEntries(inexact_name, entries, name_type) ==
    [i \in 1..Len(entries) |->
        [attrs |-> entries[i],
         score |-> calculate_name_similarity(inexact_name,
                       GetS(entries[i], "Name"), name_type)]]

\* the sorted candidates all kept: what BestMatches would be if the code
\* did not cut the list
AllMatches(best_matches) == best_matches

\* the matches kept from the sorted candidates: the best one alone if it
\* scores 85 or more, the best three otherwise
BestMatches(best_matches) ==
    IF best_matches = <<>> THEN <<>>
    ELSE IF best_matches[1].score >= FuzzyExactScore THEN <<best_matches[1]>>
    ELSE Take(best_matches, FuzzyMaxMatches)

\* the candidates of one inexact name, best first: the entries that have a
\* name and score at least 30, sorted by score and cut
FuzzyMatches(inexact_name, entries, name_type) ==
    BestMatches(SortByScoreDesc(SelectSeq(
        ScoredEntries(inexact_name, entries, name_type),
        LAMBDA m : GetS(m.attrs, "Name") # <<>> /\ m.score >= FuzzyMinScore)))

(***************************************************************************)
(* audit_services: expand_wildcard_targets                                 *)
(***************************************************************************)

PassClass == [cls |-> "pass", name |-> <<>>]

ErrorClass == [cls |-> "error", name |-> <<>>]

\* a name with a `*` is a pattern, any other name is matched by similarity
ByName(pattern_cls, fuzzy_cls, n) ==
    IF ~IsStr(n) THEN PassClass
    ELSE IF HasChar(n.str, "*") THEN [cls |-> pattern_cls, name |-> n.str]
    ELSE [cls |-> fuzzy_cls, name |-> n.str]

ClassifyServiceData(data) ==
    IF ~IsDict(data) THEN ErrorClass
    ELSE IF ~IsDict(GetD(data.dict, "Service", EmptyDict)) THEN ErrorClass
    ELSE ByName("service_pattern", "service_fuzzy",
                GetD(GetD(data.dict, "Service", EmptyDict).dict, "Name", Str(<<>>)))

\* a direct SloName that is a non-empty string is taken, anything else passes
ByDirectSloName(slo_name) ==
    IF Truthy(slo_name) /\ IsStr(slo_name)
    THEN ByName("slo_pattern", "slo_fuzzy", slo_name) ELSE PassClass

ClassifySloData(data) ==
    IF IsStr(data) THEN ByName("slo_pattern", "slo_fuzzy", data)
    ELSE IF ~IsDict(data) THEN ErrorClass
    ELSE IF "Slo" \notin DOMAIN data.dict
    THEN ByDirectSloName(_ci_get(data.dict, <<"SloName", "sloName", "sloname">>))
    ELSE IF IsDict(data.dict["Slo"])
    THEN ByName("slo_pattern", "slo_fuzzy",
                GetD(data.dict["Slo"].dict, "SloName", Str(<<>>)))
    ELSE PassClass

\* only a `*` in the service name makes a service_operation target a pattern
ByOperationServiceName(service_name) ==
    IF IsStr(service_name) /\ HasChar(service_name.str, "*")
    THEN [cls |-> "service_pattern", name |-> service_name.str]
    ELSE PassClass

ClassifyServiceOperationData(data) ==
    LET service_op_data == GetD(data.dict, "ServiceOperation", EmptyDict)
        service_data == GetD(service_op_data.dict, "Service", EmptyDict)
    IN  IF ~IsDict(data) THEN ErrorClass
        ELSE IF ~IsDict(service_op_data) THEN ErrorClass
        ELSE IF ~IsDict(service_data) THEN ErrorClass
        ELSE ByOperationServiceName(GetD(service_data.dict, "Name", Str(<<>>)))

ClassifyByType(target_type, data) ==
    IF target_type = sService THEN ClassifyServiceData(data)
    ELSE IF target_type = sSlo THEN ClassifySloData(data)
    ELSE IF target_type = sServiceOperation THEN ClassifyServiceOperationData(data)
    ELSE PassClass

\* first pass: what one raw target is taken for
ClassifyTarget(target) ==
    IF ~IsStr(GetD(target, "Type", Str(<<>>))) THEN ErrorClass
    ELSE ClassifyByType(Lower(GetD(target, "Type", Str(<<>>)).str),
                        GetD(target, "Data", EmptyDict))

\* every target of the list with what the first pass takes it for
Classified(targets, Classify(_)) ==
    [i \in 1..Len(targets) |-> [target |-> targets[i], c |-> Classify(targets[i])]]

\* the classified targets of one class, in input order
OfClass(tagged, cls) == SelectSeq(tagged, LAMBDA x : x.c.cls = cls)

\* the targets of a classified list
TargetsOf(tagged) == [i \in 1..Len(tagged) |-> tagged[i].target]

ServiceTarget(name, environment) ==
    [Type |-> Str(sService),
     Data |-> Dict([Service |-> Dict([Type |-> Str(cService),
                                      Name |-> Str(name),
                                      Environment |-> environment])])]

ServiceOperationTarget(name, environment, operation, metric_type) ==
    [Type |-> Str(sServiceOperation),
     Data |-> Dict([ServiceOperation |->
                Dict([Service |-> Dict([Type |-> Str(cService),
                                        Name |-> Str(name),
                                        Environment |-> environment]),
                      Operation |-> operation,
                      MetricType |-> metric_type])])]

\* the catalog entries whose Name contains the search term of the pattern
PatternHits(pattern, entries) ==
    SelectSeq(entries, LAMBDA a : TermMatches(SearchTerm(pattern), GetS(a, "Name")))

\* one target per hit: a service_operation target that keeps the Operation
\* and MetricType of the original, or a service target
InlineServiceTargets(is_service_operation, service_op_data, hits) ==
    [i \in 1..Len(hits) |->
        IF is_service_operation
        THEN ServiceOperationTarget(GetS(hits[i], "Name"),
                 GetV(hits[i], "Environment"),
                 GetD(service_op_data, "Operation", Str(<<>>)),
                 GetD(service_op_data, "MetricType", Str(cLatency)))
        ELSE ServiceTarget(GetS(hits[i], "Name"), GetV(hits[i], "Environment"))]

\* the targets one service pattern expands to (audit_services does not
\* filter the catalog entries)
InlineServicePatternTargets(original_target, pattern, all_services) ==
    InlineServiceTargets(
        Lower(GetD(original_target, "Type", Str(<<>>)).str) = sServiceOperation,
        GetD(GetD(original_target, "Data", EmptyDict).dict,
             "ServiceOperation", EmptyDict).dict,
        PatternHits(pattern, all_services))

\* the targets of the matched services, or the original if nothing matched
ServiceMatchTargets(original_target, matched_services) ==
    IF matched_services = <<>> THEN <<original_target>>
    ELSE [i \in 1..Len(matched_services) |->
            ServiceTarget(GetS(matched_services[i].attrs, "Name"),
                          GetV(matched_services[i].attrs, "Environment"))]

\* the targets one inexact service name is replaced by
ServiceFuzzyTargets(original_target, inexact_name, all_services) ==
    ServiceMatchTargets(original_target,
                        FuzzyMatches(inexact_name, all_services, "service"))

SloNameTarget(slo_name) ==
    [Type |-> Str(sSlo), Data |-> Dict([Slo |-> Dict([SloName |-> Str(slo_name)])])]

SloNameTargets(hits) == [i \in 1..Len(hits) |-> SloNameTarget(GetS(hits[i], "Name"))]

InlineSloPatternTargets(pattern, all_slos) ==
    SloNameTargets(PatternHits(pattern, all_slos))

SloMatchTargets(original_target, matched_slos) ==
    IF matched_slos = <<>> THEN <<original_target>>
    ELSE [i \in 1..Len(matched_slos) |->
            SloNameTarget(GetS(matched_slos[i].attrs, "Name"))]

SloFuzzyTargets(original_target, inexact_name, all_slos) ==
    SloMatchTargets(original_target, FuzzyMatches(inexact_name, all_slos, "slo"))

\* the service targets of the expanded list: nothing if no service name is
\* to be resolved, else the expansions of the patterns, then of the inexact
\* names
ExpandedServices(service_patterns, service_fuzzy_matches, all_services) ==
    Flatten([i \in 1..Len(service_patterns) |->
                InlineServicePatternTargets(service_patterns[i].target,
                    service_patterns[i].c.name, all_services)])
    \o Flatten([i \in 1..Len(service_fuzzy_matches) |->
                ServiceFuzzyTargets(service_fuzzy_matches[i].target,
                    service_fuzzy_matches[i].c.name, all_services)])

\* the SLO targets of the expanded list; if the listing raised, the original
\* targets are put back
ExpandedSlos(slo_patterns, slo_fuzzy_matches, slos_response) ==
    IF slo_patterns = <<>> /\ slo_fuzzy_matches = <<>> THEN <<>>
    ELSE IF ~slos_response.ok
    THEN TargetsOf(slo_patterns) \o TargetsOf(slo_fuzzy_matches)
    ELSE Flatten([i \in 1..Len(slo_patterns) |->
                    InlineSloPatternTargets(slo_patterns[i].c.name,
                                            slos_response.list)])
         \o Flatten([i \in 1..Len(slo_fuzzy_matches) |->
                    SloFuzzyTargets(slo_fuzzy_matches[i].target,
                        slo_fuzzy_matches[i].c.name, slos_response.list)])

\* the second pass of expand_wildcard_targets on the classified targets
ExpandClassified(tagged, services_response, slos_response) ==
    LET service_patterns == OfClass(tagged, "service_pattern")
        service_fuzzy_matches == OfClass(tagged, "service_fuzzy")
    IN  IF OfClass(tagged, "error") # <<>> THEN Err("AttributeError")
        ELSE IF service_patterns = <<>> /\ service_fuzzy_matches = <<>>
        THEN Ok(TargetsOf(OfClass(tagged, "pass"))
                \o ExpandedSlos(OfClass(tagged, "slo_pattern"),
                                OfClass(tagged, "slo_fuzzy"), slos_response))
        ELSE IF ~services_response.ok THEN Err("ValueError")
        ELSE Ok(TargetsOf(OfClass(tagged, "pass"))
                \o ExpandedServices(service_patterns, service_fuzzy_matches,
                                    services_response.list)
                \o ExpandedSlos(OfClass(tagged, "slo_pattern"),
                                OfClass(tagged, "slo_fuzzy"), slos_response))

\* expand_wildcard_targets(targets), given what list_services and the paged
\* list_service_level_objectives answer: [ok |-> FALSE] when the call raises,
\* [ok |-> TRUE, list |-> summaries] otherwise
expand_wildcard_targets(targets, services_response, slos_response) ==
    ExpandClassified(Classified(targets, ClassifyTarget),
                     services_response, slos_response)

(***************************************************************************)
(* audit_services: _validate_and_enrich_targets, one loop iteration        *)
(***************************************************************************)

\* (t.get("Type") or "").lower()
ExactTypeOf(t) == LowerStr(Get(t, "Type"))

\* svc of a service target: ((t.get("Data") or {}).get("Service") or {})
ServiceOf(t) ==
    Or(Get(Or(Get(t, "Data"), EmptyDict).dict, "Service"), EmptyDict).dict

\* whether a service entity makes the iteration call list_services
LookupNeeded(svc) ==
    /\ Truthy(Get(svc, "Name"))
    /\ ~HasChar(Get(svc, "Name").str, "*")
    /\ ~Truthy(Get(svc, "Environment"))

\* whether the iteration for target t calls list_services
NeedsLookup(t) == ExactTypeOf(t) = sService /\ LookupNeeded(ServiceOf(t))

\* the first catalog entry whose Name equals service_name, or <<>>
FindService(all_services, service_name) ==
    LET hits == {i \in 1..Len(all_services) :
                    GetV(all_services[i], "Name") = service_name}
    IN  IF hits = {} THEN <<>> ELSE <<all_services[First(hits)]>>

\* the enrichment without the check that the catalog entry has an
\* Environment: what Enriched would be if the code copied the value blindly
EnrichedBlindly(svc, found) ==
    IF found = <<>> THEN Err("ValueError")
    ELSE Ok([Type |-> Str(sService),
             Data |-> Dict([Service |->
                        Dict(SetKey(svc, "Environment",
                                    GetV(found[1], "Environment")))])])

\* the target with the Environment of the catalog entry that was found
Enriched(svc, found) ==
    IF found = <<>> THEN Err("ValueError")
    ELSE IF ~Truthy(GetV(found[1], "Environment")) THEN Err("ValueError")
    ELSE Ok([Type |-> Str(sService),
             Data |-> Dict([Service |->
                        Dict(SetKey(svc, "Environment",
                                    GetV(found[1], "Environment")))])])

ValidateServiceEntity(t, svc, service_name, services_response) ==
    IF Truthy(service_name) /\ HasChar(service_name.str, "*")
    THEN Err("ValueError")
    ELSE IF Truthy(Get(svc, "Environment")) THEN Ok(t)
    ELSE IF ~Truthy(service_name) THEN Err("ValueError")
    ELSE IF ~services_response.ok THEN Err("ValueError")
    ELSE Enriched(svc, FindService(services_response.list, service_name))

ValidateService(t, services_response) ==
    ValidateServiceEntity(t, ServiceOf(t), Get(ServiceOf(t), "Name"),
                          services_response)

\* an SLO target in the direct format is rewritten with canonical key names
ValidateDirectSlo(slo_arn, slo_name, potential_name) ==
    IF Truthy(slo_arn) \/ Truthy(slo_name)
    THEN Ok([Type |-> Str(sSlo), Data |-> SloObj(slo_arn, slo_name)])
    ELSE IF Truthy(potential_name)
    THEN Ok([Type |-> Str(sSlo), Data |-> Dict([SloName |-> potential_name])])
    ELSE Err("ValueError")

ValidateSloData(t, data) ==
    IF IsDict(data) /\ ~Truthy(Get(data.dict, "Slo"))
    THEN ValidateDirectSlo(_ci_get(data.dict, <<"SloArn", "sloArn", "sloarn">>),
                           _ci_get(data.dict, <<"SloName", "sloName", "sloname">>),
                           _ci_get(data.dict, <<"Name", "name", "Id", "id">>))
    ELSE IF IsStr(data)
    THEN Ok([Type |-> Str(sSlo), Data |-> Dict([SloName |-> data])])
    ELSE Ok(t)

ValidateSlo(t) == ValidateSloData(t, GetD(t, "Data", EmptyDict))

ValidateByType(t, target_type, services_response) ==
    IF target_type = sService THEN ValidateService(t, services_response)
    ELSE IF target_type = sSlo THEN ValidateSlo(t)
    ELSE Ok(t)

\* the body of the loop of _validate_and_enrich_targets for one target
ValidateOne(t, services_response) ==
    ValidateByType(t, ExactTypeOf(t), services_response)

(***************************************************************************)
(* audit_utils: the expanders of the shared module                         *)
(***************************************************************************)

\* a non-empty string is a pattern or an inexact name, anything else passes
UtilsByServiceName(service_name) ==
    IF ~(IsStr(service_name) /\ Truthy(service_name)) THEN PassClass
    ELSE IF HasChar(service_name.str, "*")
    THEN [cls |-> "service_pattern", name |-> service_name.str]
    ELSE [cls |-> "service_fuzzy", name |-> service_name.str]

\* Data.Service.Name, or the Service shorthand of the target if that is empty
UtilsServiceName(target, nested) ==
    IF Truthy(nested) THEN nested ELSE GetD(target, "Service", Str(<<>>))

\* Data.Service.Name of a target, None where Data or Service is no object
NestedServiceName(service_data) ==
    IF ~IsDict(service_data) THEN None
    ELSE IF ~IsDict(GetD(service_data.dict, "Service", EmptyDict)) THEN None
    ELSE GetD(GetD(service_data.dict, "Service", EmptyDict).dict, "Name", Str(<<>>))

\* first pass of expand_service_wildcard_patterns
UtilsClassifyService(target) ==
    IF ~IsStr(GetD(target, "Type", Str(<<>>))) THEN ErrorClass
    ELSE IF Lower(GetD(target, "Type", Str(<<>>)).str) # sService THEN PassClass
    ELSE UtilsByServiceName(UtilsServiceName(target,
             NestedServiceName(GetD(target, "Data", EmptyDict))))

\* not a placeholder: a name, not "Unknown", and of type Service
IsRealService(attrs) ==
    /\ GetS(attrs, "Name") # <<>>
    /\ GetS(attrs, "Name") # cUnknown
    /\ GetS(attrs, "Type") = cService

ServiceTargets(hits) ==
    [i \in 1..Len(hits) |->
        ServiceTarget(GetS(hits[i], "Name"), Str(GetS(hits[i], "Environment")))]

\* the targets one service pattern expands to
ServicePatternTargets(pattern, all_services) ==
    ServiceTargets(SelectSeq(PatternHits(pattern, all_services), IsRealService))

UtilsExpandedServices(tagged, services_response) ==
    LET service_patterns == OfClass(tagged, "service_pattern")
        service_fuzzy_matches == OfClass(tagged, "service_fuzzy")
    IN  IF OfClass(tagged, "error") # <<>> THEN Err("AttributeError")
        ELSE IF service_patterns = <<>> /\ service_fuzzy_matches = <<>>
        THEN Ok(TargetsOf(OfClass(tagged, "pass")))
        ELSE IF ~services_response.ok THEN Err("ValueError")
        ELSE Ok(TargetsOf(OfClass(tagged, "pass"))
                \o Flatten([i \in 1..Len(service_patterns) |->
                     ServicePatternTargets(service_patterns[i].c.name,
                                           services_response.list)])
                \o Flatten([i \in 1..Len(service_fuzzy_matches) |->
                     ServiceFuzzyTargets(service_fuzzy_matches[i].target,
                         service_fuzzy_matches[i].c.name, services_response.list)]))

expand_service_wildcard_patterns(targets, services_response) ==
    UtilsExpandedServices(Classified(targets, UtilsClassifyService),
                          services_response)

\* a nested SloName with a `*` is a pattern
UtilsBySloName(slo_name) ==
    IF ~IsStr(slo_name) THEN ErrorClass
    ELSE IF HasChar(slo_name.str, "*")
    THEN [cls |-> "slo_pattern", name |-> slo_name.str]
    ELSE PassClass

\* Data.Slo.SloName of a target, None where Data or Slo is no object
NestedSloName(data) ==
    IF ~IsDict(data) THEN None
    ELSE IF ~IsDict(GetD(data.dict, "Slo", EmptyDict)) THEN None
    ELSE GetD(GetD(data.dict, "Slo", EmptyDict).dict, "SloName", Str(<<>>))

\* first pass of expand_slo_wildcard_patterns
UtilsClassifySlo(target) ==
    IF ~IsStr(GetD(target, "Type", Str(<<>>))) THEN ErrorClass
    ELSE IF Lower(GetD(target, "Type", Str(<<>>)).str) # sSlo THEN PassClass
    ELSE UtilsBySloName(NestedSloName(GetD(target, "Data", EmptyDict)))

SloTargets(hits) ==
    [i \in 1..Len(hits) |->
        [Type |-> Str(sSlo),
         Data |-> Dict([Slo |-> Dict([SloName |-> Str(GetS(hits[i], "Name")),
                                      SloArn |-> Str(GetS(hits[i], "Arn"))])])]]

\* the targets one SLO pattern expands to: both identifiers of every match
SloPatternTargets(pattern, all_slos) == SloTargets(PatternHits(pattern, all_slos))

UtilsExpandedSlos(tagged, slos_response) ==
    LET wildcard_patterns == OfClass(tagged, "slo_pattern")
    IN  IF OfClass(tagged, "error") # <<>> THEN Err("AttributeError")
        ELSE IF wildcard_patterns = <<>> THEN Ok(TargetsOf(OfClass(tagged, "pass")))
        ELSE IF ~slos_response.ok THEN Err("ValueError")
        ELSE Ok(TargetsOf(OfClass(tagged, "pass"))
                \o Flatten([i \in 1..Len(wildcard_patterns) |->
                      SloPatternTargets(wildcard_patterns[i].c.name,
                                        slos_response.list)]))

expand_slo_wildcard_patterns(targets, slos_response) ==
    UtilsExpandedSlos(Classified(targets, UtilsClassifySlo), slos_response)

PassOperation ==
    [cls |-> "pass", service |-> <<>>, operation |-> <<>>, metric_type |-> <<>>]

ErrorOperation ==
    [cls |-> "error", service |-> <<>>, operation |-> <<>>, metric_type |-> <<>>]

\* a `*` in the service name or in the operation makes the target a pattern
UtilsByOperation(service_name, operation, metric_type) ==
    IF ~IsStr(service_name) \/ ~IsStr(operation) THEN ErrorOperation
    ELSE IF HasChar(service_name.str, "*") \/ HasChar(operation.str, "*")
    THEN [cls |-> "operation_pattern", service |-> service_name.str,
          operation |-> operation.str, metric_type |-> metric_type.str]
    ELSE PassOperation

\* Data.ServiceOperation of a target, None where Data is no object
NestedServiceOperation(data) ==
    IF IsDict(data) THEN GetD(data.dict, "ServiceOperation", EmptyDict) ELSE None

UtilsClassifyOperationData(service_op_data) ==
    IF ~IsDict(service_op_data) THEN ErrorOperation
    ELSE IF ~IsDict(GetD(service_op_data.dict, "Service", EmptyDict))
    THEN ErrorOperation
    ELSE UtilsByOperation(
             GetD(GetD(service_op_data.dict, "Service", EmptyDict).dict,
                  "Name", Str(<<>>)),
             GetD(service_op_data.dict, "Operation", Str(<<>>)),
             GetD(service_op_data.dict, "MetricType", Str(cLatency)))

\* first pass of expand_service_operation_wildcard_patterns
UtilsClassifyOperation(target) ==
    IF ~IsStr(GetD(target, "Type", Str(<<>>))) THEN ErrorOperation
    ELSE IF Lower(GetD(target, "Type", Str(<<>>)).str) # sServiceOperation
    THEN PassOperation
    ELSE UtilsClassifyOperationData(
             NestedServiceOperation(GetD(target, "Data", EmptyDict)))

\* whether a catalog service is one the service side of a pattern resolves to
ServiceSideMatches(service_pattern, attrs) ==
    /\ IsRealService(attrs)
    /\ IF HasChar(service_pattern, "*")
       THEN TermMatches(SearchTerm(service_pattern), GetS(attrs, "Name"))
       ELSE GetS(attrs, "Name") = service_pattern

\* whether an operation name matches the Operation pattern
OperationMatches(operation_pattern, operation_name) ==
    IF HasChar(operation_pattern, "*")
    THEN TermMatches(SearchTerm(operation_pattern), operation_name)
    ELSE operation_name = operation_pattern

\* an operation with any metric reference, whatever its type
HasMetricTypeOfAnyKind(operation, metric_type) ==
    operation.MetricReferences # <<>>

\* any(ref.get('MetricType', '') == metric_type for ref in metric_refs)
HasMetricType(operation, metric_type) ==
    \E i \in 1..Len(operation.MetricReferences) :
        operation.MetricReferences[i] = metric_type

\* the positions of the catalog services a pattern resolves to
MatchedServices(service_pattern, all_services) ==
    SelectSeq([i \in 1..Len(all_services) |-> i],
              LAMBDA i : ServiceSideMatches(service_pattern, all_services[i]))

\* the targets of the operations of one service that match the pattern
OperationTargets(c, attrs, hits) ==
    [k \in 1..Len(hits) |->
        ServiceOperationTarget(GetS(attrs, "Name"), Str(GetS(attrs, "Environment")),
                               Str(hits[k].Name), Str(c.metric_type))]

\* what one matched service contributes: nothing if listing its operations
\* raised
ServiceOperationTargets(c, attrs, response) ==
    IF ~response.ok THEN <<>>
    ELSE OperationTargets(c, attrs,
             SelectSeq(response.list,
                 LAMBDA o : OperationMatches(c.operation, o.Name)
                            /\ HasMetricType(o, c.metric_type)))

\* the targets one service-operation pattern expands to; operations_response[i]
\* is what list_service_operations answers for the i-th catalog service
OperationPatternTargets(c, all_services, operations_response) ==
    LET over(idx) ==
            Flatten([k \in 1..Len(idx) |->
                ServiceOperationTargets(c, all_services[idx[k]],
                                        operations_response[idx[k]])])
    IN  over(MatchedServices(c.service, all_services))

UtilsExpandedOperations(tagged, services_response, operations_response) ==
    LET wildcard_patterns == OfClass(tagged, "operation_pattern")
    IN  IF OfClass(tagged, "error") # <<>> THEN Err("AttributeError")
        ELSE IF wildcard_patterns = <<>> THEN Ok(TargetsOf(OfClass(tagged, "pass")))
        ELSE IF ~services_response.ok THEN Err("ValueError")
        ELSE Ok(TargetsOf(OfClass(tagged, "pass"))
                \o Flatten([i \in 1..Len(wildcard_patterns) |->
                      OperationPatternTargets(wildcard_patterns[i].c,
                          services_response.list, operations_response)]))

expand_service_operation_wildcard_patterns(targets, services_response, operations_response) ==
    UtilsExpandedOperations(Classified(targets, UtilsClassifyOperation),
                            services_response, operations_response)

(***************************************************************************)
(* Bounds of the model and the inputs it draws from                        *)
(***************************************************************************)

\* the longest list of fully specified targets a run is given
MaxTargets == 12

\* the most findings one backend response carries
MaxFindings == 2

nPayApi == <<"p","a","y","-","a","p","i">>

nWeb == <<"w","e","b">>

nApp == <<"a","p","p">>

nPay == <<"p","a","y">>

eEks == <<"e","k","s">>

eEc2 == <<"e","c","2">>

oGet == <<"G","E","T">>

oPost == <<"P","O","S","T">>

cFault == <<"F","a","u","l","t">>

\* a catalog of three services and one "Unknown" placeholder; one of the
\* services has no Environment
CatalogA ==
    << [Name |-> nPayApi, Type |-> cService, Environment |-> eEks],
       [Name |-> nWeb, Type |-> cService],
       [Name |-> nApp, Type |-> cService, Environment |-> eEc2],
       [Name |-> cUnknown, Type |-> cService, Environment |-> eEks] >>

\* a catalog with four similar names
CatalogB ==
    << [Name |-> <<"w","e","b"," ","p","a","y"," ","x">>, Type |-> cService, Environment |-> eEks],
       [Name |-> <<"p","a","y"," ","a","p","i">>, Type |-> cService, Environment |-> eEks],
       [Name |-> <<"a","p","i"," ","p","a","y">>, Type |-> cService, Environment |-> eEc2],
       [Name |-> <<"p","a","y"," ","w","e","b">>, Type |-> cService, Environment |-> eEks] >>

ServiceCatalogs == {CatalogA, CatalogB}

nOdersService == <<"o","d","e","r","s","-","s","e","r","v","i","c","e">>

nOrdersService == <<"o","r","d","e","r","s","-","s","e","r","v","i","c","e">>

\* the catalog of the misspelt-name scenario
ScenarioCatalog ==
    << [Name |-> nOrdersService, Type |-> cService, Environment |-> eEks],
       [Name |-> <<"o","r","d","e","r","-","e","v","e","n","t","s">>,
        Type |-> cService, Environment |-> eEks],
       [Name |-> <<"b","i","l","l","i","n","g","-","s","e","r","v","i","c","e">>,
        Type |-> cService, Environment |-> eEks] >>

SloCatalog ==
    << [Name |-> <<"p","a","y"," ","l","a","t">>, Arn |-> <<"a","r","n","1">>],
       [Name |-> <<"w","e","b"," ","l","a","t">>, Arn |-> <<"a","r","n","2">>] >>

\* the operations every catalog service reports
ServiceOperations ==
    << [Name |-> oGet, MetricReferences |-> <<cLatency, cFault>>],
       [Name |-> oPost, MetricReferences |-> <<cFault>>] >>

RawService(name) ==
    [Type |-> Str(sService),
     Data |-> Dict([Service |-> Dict([Type |-> Str(cService), Name |-> Str(name)])])]

RawSlo(slo) == [Type |-> Str(sSlo), Data |-> Dict([Slo |-> Dict(slo)])]

RawServiceOperation(service, operation) ==
    [Type |-> Str(sServiceOperation),
     Data |-> Dict([ServiceOperation |->
                Dict([Service |-> Dict(service), Operation |-> Str(operation)])])]

\* raw targets of every form the entry points document
TargetPool ==
    { RawService(<<"*">>),
      RawService(<<"*","p","a","y","*">>),
      RawService(nPay),
      RawService(<<"p","a","y","_","a","p","i">>),
      RawService(<<"p","a","y"," ","a","p","i">>),
      RawService(nApp),
      RawService(nWeb),
      ServiceTarget(nPayApi, Str(eEks)),
      [type |-> Str(sService),
       data |-> Dict([service |-> Dict([name |-> Str(<<"*">>)])])],
      RawSlo([SloName |-> Str(<<"*","l","a","t","*">>)]),
      RawSlo([SloName |-> Str(<<"l","a","t">>)]),
      RawSlo([SloName |-> Str(<<"p","a","y"," ","l","a","t">>), SloArn |-> Str(<<"a","r","n","1">>)]),
      [Type |-> Str(sSlo), Data |-> Str(<<"p","a","y"," ","l","a","t">>)],
      RawServiceOperation([Type |-> Str(cService), Name |-> Str(<<"*">>)], oGet),
      RawServiceOperation([Type |-> Str(cService), Name |-> Str(nPayApi),
                           Environment |-> Str(eEks)], <<"*">>),
      ServiceOperationTarget(<<"*","p","a","y","*">>, None, Str(<<"*","G","E","*">>), Str(cFault)) }

\* the keys a raw target may carry its type under
TypeKeys == {"Type", "type", "target_type"}

\* the spellings of the three type names
TypeSpellings ==
    { sService, <<"S","E","R","V","I","C","E">>, sSlo, <<"S","L","O">>,
      sServiceOperation,
      <<"S","e","r","v","i","c","e","_","O","p","e","r","a","t","i","o","n">> }

\* the target t with its type spelt as spelling under key
Retyped(t, key, spelling) ==
    [k \in (DOMAIN t \ TypeKeys) \cup {key} |-> IF k = key THEN Str(spelling) ELSE t[k]]

\* a fully specified target of each type
TypedTargets ==
    { ServiceTarget(nPayApi, Str(eEks)),
      RawSlo([SloName |-> Str(<<"p","a","y"," ","l","a","t">>)]),
      ServiceOperationTarget(nPayApi, Str(eEks), Str(oGet), Str(cLatency)) }

\* the targets of TypedTargets with the type under each key and in each
\* spelling
TypeVariants ==
    { Retyped(t, key, spelling) :
        <<t, key, spelling>> \in
            { x \in TypedTargets \X TypeKeys \X TypeSpellings :
                Lower(x[3]) = x[1].Type.str } }

eEksAll == <<"e","k","s",":","*">>

\* a catalog with a service in an EKS cluster and one on EC2
EnvironmentCatalog ==
    << [Name |-> nPayApi, Type |-> cService,
        Environment |-> <<"e","k","s",":","c","1">>],
       [Name |-> nWeb, Type |-> cService,
        Environment |-> <<"e","c","2",":","a","s","g">>] >>

\* the documented "EKS Services" target: every name, Environment eks:*
EksServices == ServiceTarget(<<"*">>, Str(eEksAll))

\* a fully specified service target of another account: the first service of
\* CatalogA with its Environment and an AwsAccountId
AccountService ==
    [Type |-> Str(sService),
     Data |-> Dict([Service |-> Dict([Type |-> Str(cService),
                                      Name |-> Str(nPayApi),
                                      Environment |-> Str(eEks),
                                      AwsAccountId |-> Str(<<"1","2","3">>)])])]

\* an SLO target in the short form whose name is the empty string
NamelessSlo == [Type |-> Str(sSlo), Data |-> Str(<<>>)]

\* the targets a second list element is taken from
Companions ==
    { RawService(<<"*">>), RawSlo([SloName |-> Str(<<"*","l","a","t","*">>)]),
      ServiceTarget(nPayApi, Str(eEks)) }

\* the raw target lists of the runs that expand, normalize and validate
RichLists ==
    {<<t>> : t \in TargetPool}
        \cup {<<t, c>> : t \in TargetPool, c \in Companions}
        \cup {<<c, t>> : c \in Companions, t \in TargetPool}

\* the most pages the trace service answers a query in
MaxTracePages == 3

\* the most trace summaries on one page
MaxPageSize == 2

\* the largest max_traces a call is given
MaxTraceLimit == 3

\* the k-th page with n trace summaries, each named by its page and position
TracePage(k, n) == [j \in 1..n |-> <<k, j>>]

\* the page sequences of the trace service: every page but the last carries
\* a NextToken
TracePagings ==
    UNION {{[k \in 1..n |-> TracePage(k, sizes[k])] :
                sizes \in [1..n -> 0..MaxPageSize]} : n \in 1..MaxTracePages}

Digits == <<"0", "1", "2", "3", "4", "5", "6", "7", "8", "9">>

\* the i-th of a family of distinct, fully specified service targets
BulkTarget(i) ==
    ServiceTarget(<<"s", Digits[(i \div 10) + 1], Digits[(i % 10) + 1]>>, Str(eEks))

\* n distinct, fully specified (normalized and validated) service targets
BulkList(n) == [i \in 1..n |-> BulkTarget(i)]

BulkLists == {BulkList(n) : n \in 1..MaxTargets}

(***************************************************************************)
(* Auditor selection                                                       *)
(***************************************************************************)

aSlo == sSlo

aOperationMetric == <<"o","p","e","r","a","t","i","o","n","_","m","e","t","r","i","c">>

AllowedAuditors ==
    { aSlo, aOperationMetric, <<"t","r","a","c","e">>, <<"l","o","g">>,
      <<"d","e","p","e","n","d","e","n","c","y","_","m","e","t","r","i","c">>,
      <<"t","o","p","_","c","o","n","t","r","i","b","u","t","o","r">>,
      <<"s","e","r","v","i","c","e","_","q","u","o","t","a">> }

\* str.split(sep) for a one-character separator
RECURSIVE SplitOn(_, _)
SplitOn(s, sep) ==
    IF ~HasChar(s, sep) THEN <<s>>
    ELSE LET i == CHOOSE k \in 1..Len(s) :
                     s[k] = sep /\ \A j \in 1..(k - 1) : s[j] # sep
         IN  <<SubSeq(s, 1, i - 1)>> \o SplitOn(SubSeq(s, i + 1, Len(s)), sep)

\* the list taken as it comes: what ResolveAuditors would be if the names
\* were not checked against the allowed set
ResolveAuditorsUnchecked(auditors_value, wants_root_cause) ==
    IF IsNone(auditors_value)
    THEN Ok(IF wants_root_cause THEN <<>> ELSE <<aSlo, aOperationMetric>>)
    ELSE IF Lower(auditors_value.str) = <<"a", "l", "l">> THEN Ok(<<>>)
    ELSE Ok(SelectSeq([i \in 1..Len(SplitOn(auditors_value.str, ",")) |->
                          Strip(SplitOn(auditors_value.str, ",")[i])],
                      LAMBDA a : a # <<>>))

\* the auditors_list of audit_services, or the error of an unknown name;
\* wants_root_cause is what the MCP_USER_PROMPT environment variable says
ResolveAuditors(auditors_value, wants_root_cause) ==
    LET parts == SplitOn(auditors_value.str, ",")
        stripped == [i \in 1..Len(parts) |-> Strip(parts[i])]
        raw_a ==
            IF IsNone(auditors_value)
            THEN IF wants_root_cause THEN <<>> ELSE <<aSlo, aOperationMetric>>
            ELSE IF Lower(auditors_value.str) = <<"a", "l", "l">> THEN <<>>
            ELSE SelectSeq(stripped, LAMBDA a : a # <<>>)
    IN  IF \E i \in 1..Len(raw_a) : raw_a[i] \notin AllowedAuditors
        THEN Err("InvalidAuditor")
        ELSE Ok(raw_a)

(***************************************************************************)
(* execute_audit_cli: batching and aggregation                             *)
(***************************************************************************)

batch_size == 5

\* target_batches: slices of batch_size when there are more than batch_size
\* targets, the whole list as the one batch otherwise
TargetBatches(targets) ==
    IF Len(targets) > batch_size
    THEN [b \in 1..((Len(targets) + batch_size - 1) \div batch_size) |->
            SubSeq(targets, (b - 1) * batch_size + 1,
                   Min2(b * batch_size, Len(targets)))]
    ELSE <<targets>>

\* the request of one batch
BatchInputObj(obj, batch_targets) ==
    LET batch_input_obj == [StartTime |-> obj.StartTime, EndTime |-> obj.EndTime,
                            AuditTargets |-> batch_targets]
    IN  IF "Auditors" \in DOMAIN obj
        THEN SetKey(batch_input_obj, "Auditors", obj.Auditors)
        ELSE batch_input_obj

\* the entry recorded for a batch whose backend process exited non-zero
BatchErrorResult(batch_idx, batch_targets) ==
    [batch_index |-> batch_idx, error |-> "CLI exit code", stderr_stdout |-> "stderr",
     targets_count |-> Len(batch_targets)]

\* the entry recorded for standard output that is not JSON
RawOutputResult(batch_idx) == [batch_index |-> batch_idx, raw_output |-> "stdout"]

\* the j-th finding of the response to batch batch_idx
Findings(batch_idx, k) == [j \in 1..k |-> <<batch_idx, j>>]

\* the JSON documents the backend may print on exit code 0: an object with
\* findings, with or without the targets echoed, an object with a top-level
\* "error" member, or a value that is not an object
JsonResponses(batch_idx, batch_targets) ==
    {[AuditFindings |-> Findings(batch_idx, k)] : k \in 0..MaxFindings}
        \cup {[AuditFindings |-> Findings(batch_idx, k),
               AuditTargets |-> batch_targets] : k \in 0..MaxFindings}
        \cup {[error |-> "backend message"], [json_list |-> <<>>]}

\* isinstance(batch_result, dict)
IsDictResult(batch_result) == "json_list" \notin DOMAIN batch_result

\* the findings of the later batches put first: what AggregatedFindings
\* would be if each batch's findings were added in front
AggregatedFindingsPrepending(counted) ==
    Flatten([i \in 1..Len(counted) |->
                GetD(counted[Len(counted) + 1 - i], "AuditFindings", <<>>)])

\* aggregated_findings: the findings of the counted batch results, one batch
\* after the other
AggregatedFindings(counted) ==
    Flatten([i \in 1..Len(counted) |-> GetD(counted[i], "AuditFindings", <<>>)])

\* the summary with every batch counted as successful: what BatchSummaryOf
\* would be if the failed batches were not subtracted
BatchSummaryAllSuccessful(total_batches, failed_batches, total_targets_processed, findings_count) ==
    [TotalBatches |-> total_batches,
     SuccessfulBatches |-> total_batches,
     FailedBatches |-> failed_batches,
     TotalTargetsProcessed |-> total_targets_processed,
     TotalFindingsCount |-> findings_count]

\* the BatchSummary of the final result
BatchSummaryOf(total_batches, failed_batches, total_targets_processed, findings_count) ==
    [TotalBatches |-> total_batches,
     SuccessfulBatches |-> total_batches - failed_batches,
     FailedBatches |-> failed_batches,
     TotalTargetsProcessed |-> total_targets_processed,
     TotalFindingsCount |-> findings_count]

\* the aggregation loops over all_batch_results and the final_result built
\* from them; a failed entry without the keys of an error entry raises
AggregateResults(total_batches, results) ==
    LET failed == SelectSeq(results,
                      LAMBDA r : IsDictResult(r) /\ "error" \in DOMAIN r)
        counted == SelectSeq(results,
                       LAMBDA r : IsDictResult(r) /\ "error" \notin DOMAIN r)
        aggregated_findings == AggregatedFindings(counted)
        total_targets_processed ==
            Len(Flatten([i \in 1..Len(counted) |->
                            GetD(counted[i], "AuditTargets", <<>>)]))
        failed_batches == Len(failed)
        final_result ==
            [AuditFindings |-> aggregated_findings,
             BatchSummary |->
                BatchSummaryOf(total_batches, failed_batches,
                               total_targets_processed, Len(aggregated_findings))]
        error_details ==
            [i \in 1..Len(failed) |->
                [batch |-> failed[i].batch_index, error |-> failed[i].error,
                 targets_count |-> failed[i].targets_count]]
    IN  IF failed_batches = 0 THEN Ok(final_result)
        ELSE IF \E i \in 1..Len(failed) :
                    ~({"batch_index", "targets_count"} \subseteq DOMAIN failed[i])
        THEN Err("KeyError")
        ELSE Ok(SetKey(final_result, "BatchErrors", error_details))

(***************************************************************************)
(* The runs of the entry points                                            *)
(***************************************************************************)

VARIABLES
    entry,              \* the function that was called
    trace_pages,        \* the pages get_trace_summaries answers in
    max_traces,         \* the max_traces argument
    pc,                 \* where the call is
    scored,             \* the arguments of a call of calculate_name_similarity
    service_targets,    \* what the targets argument is as a JSON document
    start_time,         \* unix_start
    end_time,           \* unix_end
    auditors,           \* the auditors argument: None or a string
    provided,           \* the target list the caller gave
    all_services,       \* Catalog Service: the service summaries
    all_slos,           \* Catalog Service: the SLO summaries
    slo_pages,          \* the pages list_service_level_objectives answers in
    catalog_calls,      \* the catalog calls made so far, and how they ended
    fuzzy_log,          \* what every inexact name expanded to
    expanded,           \* the outcome of the expansion stage
    normalized_targets, \* the output of _normalize_targets
    enriched_targets,   \* the list _validate_and_enrich_targets is building
    input_obj,          \* the request before batching
    requests,           \* the batch requests handed to the Audit Backend
    outcomes,           \* how each backend invocation ended
    all_batch_results,  \* all_batch_results of the batch loop
    result              \* what the call returned or raised

vars == <<entry, pc, trace_pages, max_traces, scored, service_targets, start_time, end_time, auditors, provided, all_services,
          all_slos, slo_pages, catalog_calls, fuzzy_log, expanded, normalized_targets,
          enriched_targets, input_obj, requests, outcomes, all_batch_results,
          result>>

Expanders == {"expand_service_wildcard_patterns", "expand_slo_wildcard_patterns",
              "expand_service_operation_wildcard_patterns"}

\* the arguments of a plain call: a valid time window, no auditors, a JSON
\* array of targets
DefaultArguments ==
    [start |-> 0, end |-> 1, auditors |-> None, service_targets |-> "array"]

\* the arguments of the runs that probe the time window and the auditors
ProbeArguments ==
    {[DefaultArguments EXCEPT !.start = t, !.auditors = a] :
        <<t, a>> \in
          { <<1, None>>, <<2, None>>,
            <<0, Str(<<"A","L","L">>)>>,
            <<0, Str(<<"s","l","o",","," ","t","r","a","c","e">>)>>,
            <<0, Str(<<"s","l","o",",","b","o","g","u","s">>)>>,
            <<0, Str(<<" ", ",">>)>> }}

\* the targets arguments that are no JSON array: text that is no JSON, a
\* JSON object, a JSON number
BadDocuments == {"malformed", "object", "number"}

ProbeLists == {<<>>, BulkList(1), <<RawService(nApp)>>, <<RawService(<<"*">>)>>}

\* the request objects execute_audit_cli is called with
InputObjects ==
    {[StartTime |-> 0, EndTime |-> 1, AuditTargets |-> ts] :
        ts \in BulkLists \cup {<<>>}}
        \cup {[StartTime |-> 0, EndTime |-> 1, AuditTargets |-> BulkList(batch_size + 1),
               Auditors |-> <<aSlo>>]}

NotRun == [run |-> FALSE]

Begin(e, p, args, targets, services, obj) ==
    /\ entry = e
    /\ pc = p
    /\ service_targets = args.service_targets
    /\ start_time = args.start
    /\ end_time = args.end
    /\ auditors = args.auditors
    /\ provided = targets
    /\ all_services = services
    /\ all_slos = SloCatalog
    /\ catalog_calls = <<>>
    /\ fuzzy_log = <<>>
    /\ expanded = NotRun
    /\ normalized_targets = <<>>
    /\ enriched_targets = <<>>
    /\ input_obj = obj
    /\ requests = <<>>
    /\ outcomes = <<>>
    /\ all_batch_results = <<>>
    /\ result = [kind |-> "pending"]

\* the names the scorer is called with: empty, blank, in either case, with
\* blanks around, with the separators the scorer treats alike
ScorerNames ==
    { <<>>, <<" ">>, nApp, <<"A","p","p">>, <<" ","a","p","p">>, nPayApi,
      <<"p","a","y","_","a","p","i">>, <<"p","a","y"," ","a","p","i">> }

\* a call of one of the entry points that take targets
\* the ways the SLO listing is paged: everything on one page, or one
\* summary per page, every page but the last with a NextToken
SloPagings == {<<SloCatalog>>, [k \in 1..Len(SloCatalog) |-> <<SloCatalog[k]>>]}

\* the calls that may list the SLOs
ExpandingCalls ==
    \/ \E ts \in RichLists, c \in ServiceCatalogs :
          Begin("audit_services", "time", DefaultArguments, ts, c, NotRun)
    \/ \E e \in Expanders, ts \in RichLists, c \in ServiceCatalogs :
          Begin(e, "expand", DefaultArguments, ts, c, NotRun)

\* the other calls of the entry points that take targets
EntryPointCalls ==
    \/ \E ts \in BulkLists :
          Begin("audit_services", "time", DefaultArguments, ts, CatalogA, NotRun)
    \/ \E ts \in ProbeLists, args \in ProbeArguments :
          Begin("audit_services", "time", args, ts, CatalogA, NotRun)
    \/ \E d \in BadDocuments, e \in {1, 2} :
          Begin("audit_services", "time",
                [DefaultArguments EXCEPT !.service_targets = d, !.end = e],
                <<>>, CatalogA, NotRun)
    \/ \E obj \in InputObjects :
          Begin("execute_audit_cli", "locate",
                [start |-> obj.StartTime, end |-> obj.EndTime, auditors |-> None,
                 service_targets |-> "array"],
                obj.AuditTargets, CatalogA, obj)
    \/ Begin("expand_service_wildcard_patterns", "expand", DefaultArguments,
             <<RawService(nOdersService)>>, ScenarioCatalog, NotRun)
    \/ \E e \in {"audit_services", "expand_service_wildcard_patterns"} :
          Begin(e, IF e = "audit_services" THEN "time" ELSE "expand", DefaultArguments,
                <<EksServices>>, EnvironmentCatalog, NotRun)
    \/ \E t \in TypeVariants :
          Begin("audit_services", "time", DefaultArguments, <<t>>, CatalogA, NotRun)
    \/ \E e \in {"audit_services", "expand_service_wildcard_patterns"} :
          Begin(e, IF e = "audit_services" THEN "time" ELSE "expand", DefaultArguments,
                <<RawSlo([SloName |-> Str(<<"*","l","a","t","*">>)]), AccountService>>,
                CatalogA, NotRun)
    \/ Begin("audit_services", "time", DefaultArguments, <<NamelessSlo>>, CatalogA,
             NotRun)

\* no trace query in a call of another function
NoTraceQuery == trace_pages = <<>> /\ max_traces = 0

Init ==
    \/ scored = NotRun /\ slo_pages \in SloPagings /\ NoTraceQuery /\ ExpandingCalls
    \/ scored = NotRun /\ slo_pages = <<SloCatalog>> /\ NoTraceQuery /\ EntryPointCalls
    \/ \E pages \in TracePagings, limit \in 0..MaxTraceLimit :
          /\ trace_pages = pages
          /\ max_traces = limit
          /\ scored = NotRun
          /\ slo_pages = <<SloCatalog>>
          /\ Begin("get_trace_summaries_paginated", "page", DefaultArguments, <<>>,
                   CatalogA, NotRun)
    \/ \E target_name \in ScorerNames, candidate_name \in ScorerNames,
          name_type \in {"service", "slo"} :
          /\ scored = [target_name |-> target_name, candidate_name |-> candidate_name,
                       name_type |-> name_type]
          /\ slo_pages = <<SloCatalog>>
          /\ NoTraceQuery
          /\ Begin("calculate_name_similarity", "score", DefaultArguments, <<>>,
                   CatalogA, NotRun)

\* what a catalog call answers
Response(ok, list) == IF ok THEN [ok |-> TRUE, list |-> list] ELSE [ok |-> FALSE]

CatalogCall(api, stage, ok) == [api |-> api, stage |-> stage, ok |-> ok]

\* the call returns: audit_services turns every exception into an error
\* string, the functions of audit_utils let it propagate
Return(kind, at) ==
    /\ pc' = "done"
    /\ result' = [kind |-> kind, at |-> at]

Fail(at) ==
    Return(IF entry = "audit_services" THEN "error" ELSE "raised", at)

(***************************************************************************)
(* calculate_name_similarity, called on its own                            *)
(***************************************************************************)

\* the scorer returns the score of the two names
ScoreNames ==
    /\ entry = "calculate_name_similarity"
    /\ pc = "score"
    /\ pc' = "done"
    /\ result' = [kind |-> "score", at |-> "score",
                  score |-> calculate_name_similarity(scored.target_name,
                                scored.candidate_name, scored.name_type)]
    /\ UNCHANGED <<entry, trace_pages, max_traces, scored, service_targets, start_time, end_time, auditors, provided,
                   all_services, all_slos, slo_pages, catalog_calls, fuzzy_log, expanded,
                   normalized_targets, enriched_targets, input_obj, requests,
                   outcomes, all_batch_results>>

(***************************************************************************)
(* audit_services, stage by stage                                          *)
(***************************************************************************)

\* the time window check
CheckTimeRange ==
    /\ entry = "audit_services"
    /\ pc = "time"
    /\ IF end_time <= start_time
       THEN Return("error", "time")
       ELSE pc' = "parse" /\ UNCHANGED result
    /\ UNCHANGED <<entry, trace_pages, max_traces, scored, service_targets, start_time, end_time, auditors, provided, all_services,
                   all_slos, slo_pages, catalog_calls, fuzzy_log, expanded,
                   normalized_targets, enriched_targets, input_obj, requests,
                   outcomes, all_batch_results>>

\* provided = json.loads(service_targets): text that is no JSON is refused;
\* a JSON object has no `*` in its keys and is refused by the check for a
\* list, iterating over a number raises
ParseTargets ==
    /\ entry = "audit_services"
    /\ pc = "parse"
    /\ IF service_targets = "malformed" THEN Return("error", "parse")
       ELSE IF service_targets \in {"object", "number"} THEN Return("error", "shape")
       ELSE pc' = "expand" /\ UNCHANGED result
    /\ UNCHANGED <<entry, trace_pages, max_traces, scored, service_targets, start_time, end_time, auditors, provided, all_services,
                   all_slos, slo_pages, catalog_calls, fuzzy_log, expanded,
                   normalized_targets, enriched_targets, input_obj, requests,
                   outcomes, all_batch_results>>

\* any('*' in str(target) for target in provided)
WildcardsDetected(targets) == \E i \in 1..Len(targets) : StarIn(Dict(targets[i]))

\* what the inexact names of a target list expanded to
FuzzyLog(service_fuzzy_matches, slo_fuzzy_matches, services, slos) ==
    [i \in 1..Len(service_fuzzy_matches) |->
        [name_type |-> "service", name |-> service_fuzzy_matches[i].c.name,
         original |-> service_fuzzy_matches[i].target, catalog |-> services,
         emitted |-> ServiceFuzzyTargets(service_fuzzy_matches[i].target,
                         service_fuzzy_matches[i].c.name, services)]]
    \o [i \in 1..Len(slo_fuzzy_matches) |->
        [name_type |-> "slo", name |-> slo_fuzzy_matches[i].c.name,
         original |-> slo_fuzzy_matches[i].target, catalog |-> slos,
         emitted |-> SloFuzzyTargets(slo_fuzzy_matches[i].target,
                         slo_fuzzy_matches[i].c.name, slos)]]

\* no target holds a `*`: the list goes to normalization as it is
SkipExpansion ==
    /\ entry = "audit_services"
    /\ pc = "expand"
    /\ ~WildcardsDetected(provided)
    /\ expanded' = Ok(provided)
    /\ IF Len(provided) = 0
       THEN Return("error", "empty")
       ELSE pc' = "normalize" /\ UNCHANGED result
    /\ UNCHANGED <<entry, trace_pages, max_traces, scored, service_targets, start_time, end_time, auditors, provided, all_services,
                   all_slos, slo_pages, catalog_calls, fuzzy_log, normalized_targets,
                   enriched_targets, input_obj, requests, outcomes,
                   all_batch_results>>

\* whether the expansion lists the services: some service name to resolve
ListsServices(tagged) ==
    /\ OfClass(tagged, "error") = <<>>
    /\ (OfClass(tagged, "service_pattern") # <<>>
        \/ OfClass(tagged, "service_fuzzy") # <<>>)

\* whether the expansion lists the SLOs, if it gets that far
ListsSlos(tagged) ==
    /\ OfClass(tagged, "error") = <<>>
    /\ (OfClass(tagged, "slo_pattern") # <<>> \/ OfClass(tagged, "slo_fuzzy") # <<>>)

\* the while loop over the pages of list_service_level_objectives: the
\* summaries of page k are added to all_slos and the loop goes on to the
\* next page while the page has a NextToken
RECURSIVE FollowNextToken(_, _, _)
FollowNextToken(pages, k, merged) ==
    IF k = Len(pages) THEN merged \o pages[k]
    ELSE FollowNextToken(pages, k + 1, merged \o pages[k])

\* the calls of that loop, the call for page failure raising (0: none does)
SloPageCalls(pages, failure) ==
    [k \in 1..(IF failure = 0 THEN Len(pages) ELSE failure) |->
        CatalogCall("list_service_level_objectives", "expand", k # failure)]

\* the catalog calls of one expansion, in call order
ExpansionCalls(lists_services, services_ok, lists_slos, slo_calls) ==
    (IF lists_services
     THEN <<CatalogCall("list_services", "expand", services_ok)>> ELSE <<>>)
    \o (IF lists_slos /\ services_ok THEN slo_calls ELSE <<>>)

\* the expansion ends: an error, an empty list, or on to normalization
Expansion(r, calls, log) ==
    /\ expanded' = r
    /\ catalog_calls' = catalog_calls \o calls
    /\ fuzzy_log' = IF r.ok THEN log ELSE <<>>
    /\ IF ~r.ok THEN Return("error", "expand")
       ELSE IF Len(r.v) = 0 THEN Return("error", "empty")
       ELSE pc' = "normalize" /\ UNCHANGED result

\* expand_wildcard_targets(provided) with tagged the classified targets; each
\* of the two catalog listings it may need either answers or raises
ExpandTagged(tagged) ==
    \E services_ok \in (IF ListsServices(tagged) THEN BOOLEAN ELSE {TRUE}) :
    \E failure \in (IF ListsSlos(tagged) /\ services_ok
                    THEN 0..Len(slo_pages) ELSE {0}) :
        Expansion(expand_wildcard_targets(provided,
                      Response(services_ok, all_services),
                      Response(failure = 0, FollowNextToken(slo_pages, 1, <<>>))),
                  ExpansionCalls(ListsServices(tagged), services_ok,
                                 ListsSlos(tagged), SloPageCalls(slo_pages, failure)),
                  FuzzyLog(OfClass(tagged, "service_fuzzy"),
                           IF failure = 0 THEN OfClass(tagged, "slo_fuzzy") ELSE <<>>,
                           all_services, all_slos))

\* expand_wildcard_targets(provided) and the check of its result
ExpandWildcardTargets ==
    /\ entry = "audit_services"
    /\ pc = "expand"
    /\ WildcardsDetected(provided)
    /\ ExpandTagged(Classified(provided, ClassifyTarget))
    /\ UNCHANGED <<entry, trace_pages, max_traces, scored, service_targets, start_time, end_time, auditors, provided, all_services,
                   all_slos, slo_pages, normalized_targets, enriched_targets, input_obj,
                   requests, outcomes, all_batch_results>>

\* normalization ends: the canonical list, or an error
Normalization(r) ==
    IF r.ok
    THEN /\ normalized_targets' = r.v
         /\ pc' = "validate"
         /\ UNCHANGED result
    ELSE /\ Return("error", "normalize")
         /\ UNCHANGED normalized_targets

\* normalized_targets = _normalize_targets(provided)
NormalizeTargets ==
    /\ entry = "audit_services"
    /\ pc = "normalize"
    /\ Normalization(_normalize_targets(expanded.v))
    /\ UNCHANGED <<entry, trace_pages, max_traces, scored, service_targets, start_time, end_time, auditors, provided, all_services,
                   all_slos, slo_pages, catalog_calls, fuzzy_log, expanded,
                   enriched_targets, input_obj, requests, outcomes,
                   all_batch_results>>

\* the iteration that skips a target it cannot validate and passes on what
\* it has: what Validation would be if a failure did not end the call
ValidationSkipping(r) ==
    IF r.ok
    THEN /\ enriched_targets' = Append(enriched_targets, r.v)
         /\ pc' = IF Len(enriched_targets) + 1 = Len(normalized_targets)
                  THEN "auditors" ELSE "validate"
         /\ UNCHANGED result
    ELSE /\ pc' = "auditors"
         /\ UNCHANGED <<enriched_targets, result>>

\* the iteration ends: the target is appended, enriched if need be, or the
\* validation fails
Validation(r) ==
    IF r.ok
    THEN /\ enriched_targets' = Append(enriched_targets, r.v)
         /\ pc' = IF Len(enriched_targets) + 1 = Len(normalized_targets)
                  THEN "auditors" ELSE "validate"
         /\ UNCHANGED result
    ELSE /\ pc' = "done"
         /\ result' = [kind |-> "error", at |-> "validate",
                       index |-> Len(enriched_targets) + 1]
         /\ UNCHANGED enriched_targets

\* the iteration for target t; a service target without Environment makes it
\* call list_services, which answers or raises
ValidateNext(t, needs_lookup) ==
    \E call_ok \in (IF needs_lookup THEN BOOLEAN ELSE {TRUE}) :
        /\ catalog_calls' =
              IF needs_lookup
              THEN Append(catalog_calls,
                          CatalogCall("list_services", "validate", call_ok))
              ELSE catalog_calls
        /\ Validation(ValidateOne(t, Response(call_ok, all_services)))

\* one iteration of the loop of _validate_and_enrich_targets
ValidateTarget ==
    /\ entry = "audit_services"
    /\ pc = "validate"
    /\ ValidateNext(normalized_targets[Len(enriched_targets) + 1],
                    NeedsLookup(normalized_targets[Len(enriched_targets) + 1]))
    /\ UNCHANGED <<entry, trace_pages, max_traces, scored, service_targets, start_time, end_time, auditors, provided, all_services,
                   all_slos, slo_pages, fuzzy_log, expanded, normalized_targets, input_obj,
                   requests, outcomes, all_batch_results>>

\* the request object: the Auditors member only for a non-empty list
InputObj(auditors_list) ==
    LET obj == [StartTime |-> start_time, EndTime |-> end_time,
                AuditTargets |-> enriched_targets]
    IN  IF auditors_list # <<>> THEN SetKey(obj, "Auditors", auditors_list) ELSE obj

\* the auditors are resolved: an unknown name ends the call
Selection(r) ==
    IF r.ok
    THEN /\ input_obj' = InputObj(r.v)
         /\ pc' = "locate"
         /\ UNCHANGED result
    ELSE /\ Return("error", "auditors")
         /\ UNCHANGED input_obj

\* the auditors are resolved and the request object is built
SelectAuditors ==
    /\ entry = "audit_services"
    /\ pc = "auditors"
    /\ \E wants_root_cause \in (IF IsNone(auditors) THEN BOOLEAN ELSE {FALSE}) :
          Selection(ResolveAuditors(auditors, wants_root_cause))
    /\ UNCHANGED <<entry, trace_pages, max_traces, scored, service_targets, start_time, end_time, auditors, provided, all_services,
                   all_slos, slo_pages, catalog_calls, fuzzy_log, expanded,
                   normalized_targets, enriched_targets, requests, outcomes,
                   all_batch_results>>

(***************************************************************************)
(* The batch loop and the aggregation: execute_audit_cli, and the same     *)
(* code inline in audit_services                                           *)
(***************************************************************************)

Batching == entry \in {"audit_services", "execute_audit_cli"}

\* shutil.which(aws_bin): the backend binary is there or the call gives up
LocateBinary ==
    /\ Batching
    /\ pc = "locate"
    /\ \E found \in BOOLEAN :
          IF found THEN pc' = "batch" /\ UNCHANGED result
          ELSE Return("failed", "locate")
    /\ UNCHANGED <<entry, trace_pages, max_traces, scored, service_targets, start_time, end_time, auditors, provided, all_services,
                   all_slos, slo_pages, catalog_calls, fuzzy_log, expanded,
                   normalized_targets, enriched_targets, input_obj, requests,
                   outcomes, all_batch_results>>

target_batches == TargetBatches(input_obj.AuditTargets)

\* the 1-based index of the batch the loop is at
batch_idx == Len(all_batch_results) + 1

\* the next batch started while the previous one may still be running: what
\* LaunchBackend would be if the invocations were not awaited one by one
LaunchBackendWithoutAwaiting ==
    /\ Batching
    /\ pc \in {"batch", "running"}
    /\ Len(requests) < Len(target_batches)
    /\ requests' = Append(requests,
                          BatchInputObj(input_obj, target_batches[Len(requests) + 1]))
    /\ pc' = "running"
    /\ UNCHANGED <<entry, trace_pages, max_traces, scored, service_targets, start_time, end_time, auditors, provided, all_services,
                   all_slos, slo_pages, catalog_calls, fuzzy_log, expanded,
                   normalized_targets, enriched_targets, input_obj, outcomes,
                   all_batch_results, result>>

\* batch_input_obj is written out and the backend process is started for the
\* batch the loop is at; the coroutine then awaits its exit
LaunchBackend ==
    /\ Batching
    /\ pc = "batch"
    /\ requests' = Append(requests, BatchInputObj(input_obj, target_batches[batch_idx]))
    /\ pc' = "running"
    /\ UNCHANGED <<entry, trace_pages, max_traces, scored, service_targets, start_time, end_time, auditors, provided, all_services,
                   all_slos, slo_pages, catalog_calls, fuzzy_log, expanded,
                   normalized_targets, enriched_targets, input_obj, outcomes,
                   all_batch_results, result>>

\* the invocation of the batch ends as outcome, leaving batch_result in
\* all_batch_results, and the loop moves to the next batch
CompleteBatch(outcome, batch_result) ==
    /\ outcomes' = Append(outcomes, outcome)
    /\ all_batch_results' = Append(all_batch_results, batch_result)
    /\ pc' = IF batch_idx = Len(target_batches) THEN "aggregate" ELSE "batch"
    /\ UNCHANGED <<entry, trace_pages, max_traces, scored, service_targets, start_time, end_time, auditors, provided, all_services,
                   all_slos, slo_pages, catalog_calls, fuzzy_log, expanded,
                   normalized_targets, enriched_targets, input_obj, requests,
                   result>>

\* proc.returncode != 0
BackendExitsNonZero ==
    /\ Batching
    /\ pc = "running"
    /\ CompleteBatch("exit_nonzero",
                     BatchErrorResult(batch_idx, target_batches[batch_idx]))

\* exit code 0 and standard output that json.loads accepts
BackendReturnsJson ==
    /\ Batching
    /\ pc = "running"
    /\ \E batch_json \in JsonResponses(batch_idx, target_batches[batch_idx]) :
          CompleteBatch("json", batch_json)

\* exit code 0 and standard output that is not JSON
BackendReturnsText ==
    /\ Batching
    /\ pc = "running"
    /\ CompleteBatch("text", RawOutputResult(batch_idx))

\* create_subprocess_exec or communicate raises: nothing in the loop catches
\* it, the loop is left and the call ends
BackendTransportError ==
    /\ Batching
    /\ pc = "running"
    /\ outcomes' = Append(outcomes, "transport_error")
    /\ Fail("batch")
    /\ UNCHANGED <<entry, trace_pages, max_traces, scored, service_targets, start_time, end_time, auditors, provided, all_services,
                   all_slos, slo_pages, catalog_calls, fuzzy_log, expanded,
                   normalized_targets, enriched_targets, input_obj, requests,
                   all_batch_results>>

\* the call ends with the final report, or with what the aggregation raised
Aggregation(r) ==
    IF all_batch_results = <<>> THEN Return("no_findings", "aggregate")
    ELSE IF r.ok
    THEN /\ pc' = "done"
         /\ result' = [kind |-> "report", at |-> "aggregate", report |-> r.v]
    ELSE Fail("aggregate")

\* the batch results are merged into the final report
Aggregate ==
    /\ Batching
    /\ pc = "aggregate"
    /\ Aggregation(AggregateResults(Len(target_batches), all_batch_results))
    /\ UNCHANGED <<entry, trace_pages, max_traces, scored, service_targets, start_time, end_time, auditors, provided, all_services,
                   all_slos, slo_pages, catalog_calls, fuzzy_log, expanded,
                   normalized_targets, enriched_targets, input_obj, requests,
                   outcomes, all_batch_results>>

(***************************************************************************)
(* The expanders of audit_utils, called on their own                       *)
(***************************************************************************)

\* the expander returns the expanded list or raises
ExpanderReturns(r, calls, log) ==
    /\ expanded' = r
    /\ catalog_calls' = calls
    /\ fuzzy_log' = IF r.ok THEN log ELSE <<>>
    /\ IF r.ok THEN Return("expanded", "expand") ELSE Return("raised", "expand")
    /\ UNCHANGED <<entry, trace_pages, max_traces, scored, service_targets, start_time, end_time, auditors, provided, all_services,
                   all_slos, slo_pages, normalized_targets, enriched_targets, input_obj,
                   requests, outcomes, all_batch_results>>

ExpandServicesTagged(tagged) ==
    \E services_ok \in (IF ListsServices(tagged) THEN BOOLEAN ELSE {TRUE}) :
        ExpanderReturns(
            expand_service_wildcard_patterns(provided,
                Response(services_ok, all_services)),
            ExpansionCalls(ListsServices(tagged), services_ok, FALSE, <<>>),
            FuzzyLog(OfClass(tagged, "service_fuzzy"), <<>>, all_services, all_slos))

ExpandServiceWildcardPatterns ==
    /\ entry = "expand_service_wildcard_patterns"
    /\ pc = "expand"
    /\ ExpandServicesTagged(Classified(provided, UtilsClassifyService))

ExpandSlosTagged(tagged) ==
    \E slos_ok \in (IF ListsSlos(tagged) THEN BOOLEAN ELSE {TRUE}) :
        ExpanderReturns(
            expand_slo_wildcard_patterns(provided, Response(slos_ok, slo_pages[1])),
            ExpansionCalls(FALSE, TRUE, ListsSlos(tagged),
                <<CatalogCall("list_service_level_objectives", "expand", slos_ok)>>),
            <<>>)

ExpandSloWildcardPatterns ==
    /\ entry = "expand_slo_wildcard_patterns"
    /\ pc = "expand"
    /\ ExpandSlosTagged(Classified(provided, UtilsClassifySlo))

\* the catalog services list_service_operations is called for, in call order
OperationLookups(wildcard_patterns, services) ==
    Flatten([p \in 1..Len(wildcard_patterns) |->
                MatchedServices(wildcard_patterns[p].c.service, services)])

\* the calls of one service-operation expansion: the service listing, then
\* one operation listing per matched service
OperationCalls(lists_services, services_ok, lookups, failing) ==
    (IF lists_services
     THEN <<CatalogCall("list_services", "expand", services_ok)>> ELSE <<>>)
    \o [k \in 1..Len(lookups) |->
          CatalogCall("list_service_operations", "expand", lookups[k] \notin failing)]

\* the expansion with the operation listings of the services in failing
\* raising
ExpandOperationsWith(lists_services, lookups) ==
    \E services_ok \in (IF lists_services THEN BOOLEAN ELSE {TRUE}) :
    \E failing \in (IF lists_services /\ services_ok
                    THEN SUBSET {lookups[k] : k \in 1..Len(lookups)}
                    ELSE {{}}) :
        ExpanderReturns(
            expand_service_operation_wildcard_patterns(provided,
                Response(services_ok, all_services),
                [i \in 1..Len(all_services) |->
                    Response(i \notin failing, ServiceOperations)]),
            OperationCalls(lists_services, services_ok,
                           IF lists_services /\ services_ok THEN lookups ELSE <<>>,
                           failing),
            <<>>)

ExpandOperationsTagged(tagged) ==
    ExpandOperationsWith(
        OfClass(tagged, "error") = <<>> /\ OfClass(tagged, "operation_pattern") # <<>>,
        OperationLookups(OfClass(tagged, "operation_pattern"), all_services))

ExpandServiceOperationWildcardPatterns ==
    /\ entry = "expand_service_operation_wildcard_patterns"
    /\ pc = "expand"
    /\ ExpandOperationsTagged(Classified(provided, UtilsClassifyOperation))

(***************************************************************************)
(* get_trace_summaries_paginated                                           *)
(***************************************************************************)

RECURSIVE CollectTraces(_, _, _, _, _, _)

\* the loop body after the page of call k was added to all_traces: the loop
\* is left when the page has no NextToken, the list is cut and the loop left
\* when max_traces is reached, otherwise the next page is asked for
AfterTracePage(pages, k, all_traces, limit, failure, calls) ==
    IF k = Len(pages) THEN [traces |-> all_traces, calls |-> calls]
    ELSE IF Len(all_traces) >= limit
    THEN [traces |-> Take(all_traces, limit), calls |-> calls]
    ELSE CollectTraces(pages, k + 1, all_traces, limit, failure, calls)

\* the while loop from call k on, with call number failure raising (0: no
\* call raises); the except clause returns all_traces as it is
CollectTraces(pages, k, all_traces, limit, failure, calls) ==
    IF Len(all_traces) >= limit THEN [traces |-> all_traces, calls |-> calls]
    ELSE IF k = failure
    THEN [traces |-> all_traces,
          calls |-> Append(calls, CatalogCall("get_trace_summaries", "page", FALSE))]
    ELSE AfterTracePage(pages, k, all_traces \o pages[k], limit, failure,
             Append(calls, CatalogCall("get_trace_summaries", "page", TRUE)))

\* the call returns the list that was collected
TracesReturn(collected) ==
    /\ pc' = "done"
    /\ result' = [kind |-> "traces", at |-> "page", traces |-> collected.traces]
    /\ catalog_calls' = collected.calls

\* get_trace_summaries_paginated(xray_client, ..., max_traces)
GetTraceSummariesPaginated ==
    /\ entry = "get_trace_summaries_paginated"
    /\ pc = "page"
    /\ \E failure \in 0..Len(trace_pages) :
          TracesReturn(CollectTraces(trace_pages, 1, <<>>, max_traces, failure, <<>>))
    /\ UNCHANGED <<entry, trace_pages, max_traces, scored, service_targets, start_time,
                   end_time, auditors, provided, all_services, all_slos, slo_pages,
                   fuzzy_log, expanded, normalized_targets, enriched_targets,
                   input_obj, requests, outcomes, all_batch_results>>

Next ==
    \/ GetTraceSummariesPaginated
    \/ ScoreNames
    \/ CheckTimeRange
    \/ ParseTargets
    \/ SkipExpansion
    \/ ExpandWildcardTargets
    \/ NormalizeTargets
    \/ ValidateTarget
    \/ SelectAuditors
    \/ LocateBinary
    \/ LaunchBackend
    \/ BackendExitsNonZero
    \/ BackendReturnsJson
    \/ BackendReturnsText
    \/ BackendTransportError
    \/ Aggregate
    \/ ExpandServiceWildcardPatterns
    \/ ExpandSloWildcardPatterns
    \/ ExpandServiceOperationWildcardPatterns

Spec == Init /\ [][Next]_vars

(***************************************************************************)
(* Properties of the batch loop                                            *)
(***************************************************************************)

\* the call has ended after entering the batch loop
LoopEnded == Batching /\ pc = "done" /\ result.at \in {"batch", "aggregate"}

\* the outcomes were all of the kinds a batch is said to end in: findings
\* on exit code 0, a non-zero exit code, or a transport error
OnlyNamedOutcomes ==
    \A i \in 1..Len(outcomes) :
        \/ outcomes[i] \in {"exit_nonzero", "transport_error"}
        \/ outcomes[i] = "json" /\ "AuditFindings" \in DOMAIN all_batch_results[i]

\* C1: no batch failure aborts the run: whatever the outcome of a batch
\* (success, non-zero backend exit, transport error), every later batch is
\* still invoked and the run ends by returning one aggregated report.
C1_NoBatchFailureAborts ==
    (LoopEnded /\ OnlyNamedOutcomes) =>
        /\ Len(requests) = Len(target_batches)
        /\ result.kind = "report"

\* C2: for a list of N targets the backend is invoked exactly ceil(N/5)
\* times.
C2_InvocationCount ==
    LoopEnded =>
        Len(requests) = (Len(input_obj.AuditTargets) + batch_size - 1) \div batch_size

\* C3: the batches partition the input preserving order: the AuditTargets of
\* the requests, concatenated in invocation order, are the input list; every
\* request carries at most 5 targets and every request but the last exactly 5.
C3_BatchesPartitionInput ==
    LoopEnded =>
        /\ Flatten([i \in 1..Len(requests) |-> requests[i].AuditTargets])
              = input_obj.AuditTargets
        /\ \A i \in 1..Len(requests) :
              /\ Len(requests[i].AuditTargets) <= batch_size
              /\ i < Len(requests) => Len(requests[i].AuditTargets) = batch_size

\* the number of targets in the batches whose backend process exited with
\* code 0
SucceededTargets ==
    Len(Flatten([i \in 1..Len(requests) |->
                    IF outcomes[i] = "exit_nonzero" THEN <<>>
                    ELSE requests[i].AuditTargets]))

\* C4: TotalTargetsProcessed of the final report is the sum of the numbers
\* of targets of the batches that succeeded, the failed batches contributing
\* nothing (12 targets with batch 2 failing: 7).
C4_TotalTargetsProcessed ==
    (Batching /\ pc = "done" /\ result.kind = "report") =>
        result.report.BatchSummary.TotalTargetsProcessed = SucceededTargets

(***************************************************************************)
(* Properties of the expansion                                             *)
(***************************************************************************)

\* the value at a path of keys in a JSON value, None where the path leaves
\* the objects
RECURSIVE ValueAt(_, _)
ValueAt(v, path) ==
    IF path = <<>> THEN v
    ELSE IF IsDict(v) THEN ValueAt(Get(v.dict, Head(path)), Tail(path))
    ELSE None

\* the identifying names of a target: a Service Name, an SloName, the
\* service Name and the Operation of a service operation
IdentifyingNames(t) ==
    {ValueAt(Dict(t), path) :
        path \in {<<"Data", "Service", "Name">>, <<"Data", "Slo", "SloName">>,
                  <<"Data", "SloName">>,
                  <<"Data", "ServiceOperation", "Service", "Name">>,
                  <<"Data", "ServiceOperation", "Operation">>}}

HasWildcardName(t) ==
    \E v \in IdentifyingNames(t) : IsStr(v) /\ HasChar(v.str, "*")

\* C5: no request sent to the backend contains a target whose identifying
\* name contains `*`.
C5_NoWildcardReachesBackend ==
    \A i \in 1..Len(requests) :
        \A j \in 1..Len(requests[i].AuditTargets) :
            ~HasWildcardName(requests[i].AuditTargets[j])

\* C6: if a catalog call made during expansion raises, the expansion fails:
\* no expanded list is produced and no backend invocation takes place.
C6_CatalogFailureIsFatal ==
    (\E i \in 1..Len(catalog_calls) :
        catalog_calls[i].stage = "expand" /\ ~catalog_calls[i].ok)
    => (~expanded.ok /\ requests = <<>>)

\* a service target in the canonical form whose Name is a pattern
IsServicePattern(t) ==
    /\ Get(t, "Type") = Str(sService)
    /\ IsStr(ValueAt(Dict(t), <<"Data", "Service", "Name">>))
    /\ HasChar(ValueAt(Dict(t), <<"Data", "Service", "Name">>).str, "*")

\* the names of the catalog entries the pattern of t stands for: the
\* entries that are no placeholders and whose Name contains the search term
PatternMatchNames(t, catalog) ==
    LET term == SearchTerm(ValueAt(Dict(t), <<"Data", "Service", "Name">>).str)
        hits == SelectSeq(catalog, LAMBDA a :
                    /\ GetS(a, "Name") # <<>>
                    /\ GetS(a, "Name") # cUnknown
                    /\ GetS(a, "Type") = cService
                    /\ (term = <<>> \/ Contains(Lower(GetS(a, "Name")), term)))
    IN  [i \in 1..Len(hits) |-> GetS(hits[i], "Name")]

\* how often x occurs in the sequence s
Occurrences(s, x) == Cardinality({i \in 1..Len(s) : s[i] = x})

\* one sequence is a rearrangement of the other
SameElements(s, t) ==
    /\ Len(s) = Len(t)
    /\ \A i \in 1..Len(s) : Occurrences(s, s[i]) = Occurrences(t, s[i])

\* a run that expanded a list of service patterns only
ExpandedServicePatterns ==
    /\ entry \in {"audit_services", "expand_service_wildcard_patterns"}
    /\ expanded # NotRun
    /\ expanded.ok
    /\ catalog_calls # <<>>
    /\ \A i \in 1..Len(provided) : IsServicePattern(provided[i])

\* C7: expanding a service pattern yields exactly one service target per
\* catalog entry that is no placeholder (a Name, not "Unknown", Type
\* "Service") and whose name contains the search term, and no other target.
C7_OneTargetPerRealMatch ==
    ExpandedServicePatterns =>
        /\ \A j \in 1..Len(expanded.v) : Get(expanded.v[j], "Type") = Str(sService)
        /\ SameElements(
              [j \in 1..Len(expanded.v) |->
                  ValueAt(Dict(expanded.v[j]), <<"Data", "Service", "Name">>)],
              Flatten([i \in 1..Len(provided) |->
                  [k \in 1..Len(PatternMatchNames(provided[i], all_services)) |->
                      Str(PatternMatchNames(provided[i], all_services)[k])]]))

\* the name a target was emitted under for an inexact name of name_type
EmittedName(t, name_type) ==
    ValueAt(Dict(t), IF name_type = "service" THEN <<"Data", "Service", "Name">>
                     ELSE <<"Data", "Slo", "SloName">>)

\* the scores of the targets emitted for the inexact name of log entry e
EmittedScores(e) ==
    [j \in 1..Len(e.emitted) |->
        calculate_name_similarity(e.name, EmittedName(e.emitted[j], e.name_type).str,
                                  e.name_type)]

\* the scores of the catalog entries against the inexact name of e
CatalogScores(e) ==
    [k \in 1..Len(e.catalog) |->
        calculate_name_similarity(e.name, GetS(e.catalog[k], "Name"), e.name_type)]

\* the cases of a name that some catalog entry matches, on the scores
MatchedCases(emitted_scores, catalog_scores) ==
    IF \E k \in 1..Len(catalog_scores) : catalog_scores[k] >= FuzzyExactScore
    THEN /\ Len(emitted_scores) = 1
         /\ \A k \in 1..Len(catalog_scores) : catalog_scores[k] <= emitted_scores[1]
    ELSE /\ Len(emitted_scores) \in 1..FuzzyMaxMatches
         /\ \A j \in 1..Len(emitted_scores) : emitted_scores[j] >= FuzzyMinScore
         /\ \A j \in 1..(Len(emitted_scores) - 1) :
               emitted_scores[j] >= emitted_scores[j + 1]

\* the three cases of the fuzzy expansion of the inexact name of e
FuzzyCases(e, catalog_scores) ==
    IF \A k \in 1..Len(catalog_scores) : catalog_scores[k] < FuzzyMinScore
    THEN e.emitted = <<e.original>>
    ELSE /\ \A j \in 1..Len(e.emitted) :
               IsStr(EmittedName(e.emitted[j], e.name_type))
         /\ MatchedCases(EmittedScores(e), catalog_scores)

\* the targets emitted for e stand next to each other in the expanded list
InExpandedList(e) ==
    \E k \in 0..(Len(expanded.v) - Len(e.emitted)) :
        SubSeq(expanded.v, k + 1, k + Len(e.emitted)) = e.emitted

\* C8: for every inexact name and catalog the fuzzy expansion emits the
\* original target once if no catalog entry scores 30 or more; exactly one
\* target, the top-scoring entry, if the best score is 85 or more; otherwise
\* at most 3 targets, each scoring 30 or more, in descending score order.
C8_FuzzyExpansion ==
    \A i \in 1..Len(fuzzy_log) :
        /\ InExpandedList(fuzzy_log[i])
        /\ FuzzyCases(fuzzy_log[i], CatalogScores(fuzzy_log[i]))

\* an inexact name with more than three catalog entries scoring in 30..84
\* was cut to the best three
C8_Witness ==
    \E i \in 1..Len(fuzzy_log) :
        /\ Len(fuzzy_log[i].emitted) = FuzzyMaxMatches
        /\ Cardinality({k \in 1..Len(fuzzy_log[i].catalog) :
              CatalogScores(fuzzy_log[i])[k] \in FuzzyMinScore..(FuzzyExactScore - 1)})
              > FuzzyMaxMatches
        /\ pc = "done"

(***************************************************************************)
(* Properties of the validation                                            *)
(***************************************************************************)

\* the Environment of a service target, None if it has none
EnvironmentOf(t) == ValueAt(Dict(t), <<"Data", "Service", "Environment">>)

\* some catalog entry of exactly that name has that Environment
CatalogHas(name, environment) ==
    \E k \in 1..Len(all_services) :
        /\ GetV(all_services[k], "Name") = name
        /\ GetV(all_services[k], "Environment") = environment

\* C9: every service target the validator has passed has a non-empty
\* Environment; where the normalized target had none, it is the Environment
\* of the catalog entry of exactly the same name (or the validation failed).
C9_ServicesHaveEnvironment ==
    \A i \in 1..Len(enriched_targets) :
        Get(enriched_targets[i], "Type") = Str(sService) =>
            /\ Truthy(EnvironmentOf(enriched_targets[i]))
            /\ ~Truthy(EnvironmentOf(normalized_targets[i])) =>
                  CatalogHas(ValueAt(Dict(normalized_targets[i]),
                                     <<"Data", "Service", "Name">>),
                             EnvironmentOf(enriched_targets[i]))

\* the validator has returned a list in which it enriched a service target
\* that came without Environment
C9_Witness ==
    /\ pc \in {"auditors", "locate", "batch", "aggregate", "done"}
    /\ Len(enriched_targets) = Len(normalized_targets)
    /\ \E i \in 1..Len(enriched_targets) :
          /\ Get(enriched_targets[i], "Type") = Str(sService)
          /\ ~Truthy(EnvironmentOf(normalized_targets[i]))
          /\ Truthy(EnvironmentOf(enriched_targets[i]))

\* the SLO identifiers a target carries: those of Data.Slo, or of Data for a
\* target in the direct format
SloIdentifiers(t) ==
    LET slo == IF IsDict(ValueAt(Dict(t), <<"Data", "Slo">>))
               THEN ValueAt(Dict(t), <<"Data", "Slo">>)
               ELSE ValueAt(Dict(t), <<"Data">>)
    IN  {k \in {"SloArn", "SloName"} : IsDict(slo) /\ Truthy(Get(slo.dict, k))}

\* the SLO targets of a list all carry exactly one identifier
OneIdentifierEach(targets) ==
    \A j \in 1..Len(targets) :
        Get(targets[j], "Type") = Str(sSlo) =>
            Cardinality(SloIdentifiers(targets[j])) = 1

\* the targets an expander of audit_utils put into the list it returned:
\* those that were not in the list it was given
ProducedByExpander ==
    IF entry \in Expanders /\ expanded # NotRun /\ expanded.ok
    THEN SelectSeq(expanded.v,
                   LAMBDA t : \A i \in 1..Len(provided) : provided[i] # t)
    ELSE <<>>

EndedOnInputError ==
    /\ entry = "audit_services"
    /\ pc = "done"
    /\ \/ result.at \in {"time", "parse", "shape", "auditors"}
       \/ result.at = "empty" /\ provided = <<>>

\* C11: every input error (malformed JSON, a top-level shape that is no
\* array, an empty target list, an end time not after the start time, an
\* unknown auditor name) is returned before any catalog call and any backend
\* invocation of the run.
C11_InputErrorsBeforeExternalCalls ==
    EndedOnInputError => (catalog_calls = <<>> /\ requests = <<>>)

\* some target of the normalized list cannot be validated: it is refused
\* whatever the catalog answers, or the listing made for it raised
SomeTargetFailsValidation ==
    /\ entry = "audit_services"
    /\ \/ \E i \in 1..Len(normalized_targets) :
             ~ValidateOne(normalized_targets[i], Response(TRUE, all_services)).ok
       \/ \E k \in 1..Len(catalog_calls) :
             catalog_calls[k].stage = "validate" /\ ~catalog_calls[k].ok

\* C12: if the validation fails for one target of the list, the run returns
\* an error and the backend is invoked zero times: no part of the list is
\* audited.
C12_ValidationErrorAbortsRun ==
    SomeTargetFailsValidation =>
        /\ requests = <<>>
        /\ pc \in {"validate", "done"}
        /\ pc = "done" => (result.kind = "error" /\ result.at = "validate")

\* the validation failed on a later target after it had passed an earlier one
C12_Witness ==
    /\ SomeTargetFailsValidation
    /\ pc = "done"
    /\ result.at = "validate"
    /\ Len(enriched_targets) >= 1

(***************************************************************************)
(* Properties of the final report                                          *)
(***************************************************************************)

\* the call returned a final report
Reported == Batching /\ pc = "done" /\ result.kind = "report"

\* the batches that failed, in batch order: the backend process exited
\* non-zero or could not be launched or awaited
FailedBatchIndexes ==
    SelectSeq([i \in 1..Len(outcomes) |-> i],
              LAMBDA i : outcomes[i] \in {"exit_nonzero", "transport_error"})

\* the BatchErrors of a report, empty if it has none
BatchErrorsOf(report) ==
    IF "BatchErrors" \in DOMAIN report THEN report.BatchErrors ELSE <<>>

\* the entries are those of the failed batches, in batch order
ErrorsMatch(errors, failed) ==
    /\ Len(errors) = Len(failed)
    /\ \A k \in 1..Len(errors) :
          /\ errors[k].batch = failed[k]
          /\ errors[k].targets_count = Len(requests[failed[k]].AuditTargets)
    /\ Len(failed) = Len(requests) =>
          result.report.AuditFindings = <<>>

\* C13: for every sequence of batch outcomes BatchErrors holds exactly one
\* entry per failed batch, in batch order, each with that batch's own 1-based
\* index and its number of targets, and no entry for a succeeded batch; when
\* every batch fails the findings are empty and BatchErrors has one entry
\* per batch.
C13_BatchErrorsPerFailedBatch ==
    LoopEnded =>
        /\ result.kind = "report"
        /\ ErrorsMatch(BatchErrorsOf(result.report), FailedBatchIndexes)

\* the findings batch i returned: those of its JSON object when the backend
\* exited with 0, none when it failed or printed no findings
ReturnedFindings(i) ==
    IF outcomes[i] = "json" /\ "AuditFindings" \in DOMAIN all_batch_results[i]
    THEN all_batch_results[i].AuditFindings
    ELSE <<>>

\* C14: the findings of the final report are the findings the succeeded
\* batches returned, concatenated in batch order: the findings of batch i
\* come before those of batch j whenever i < j, and no finding comes from a
\* batch that exited non-zero
C14_FindingsConcatenatedInBatchOrder ==
    Reported =>
        LET findings == result.report.AuditFindings
        IN  /\ findings = Flatten([i \in 1..Len(outcomes) |-> ReturnedFindings(i)])
            /\ \A p, q \in 1..Len(findings) :
                  p < q => findings[p][1] <= findings[q][1]
            /\ \A p \in 1..Len(findings) :
                  outcomes[findings[p][1]] # "exit_nonzero"

C14_Witness ==
    /\ Reported
    /\ outcomes = <<"json", "exit_nonzero", "json">>
    /\ result.report.AuditFindings = <<<<1, 1>>, <<1, 2>>, <<3, 1>>>>

\* C15: in every final report SuccessfulBatches + FailedBatches equals
\* TotalBatches, TotalBatches is the number of batches invoked, and
\* TotalFindingsCount is the number of findings in the report
C15_SummaryCountsAddUp ==
    Reported =>
        LET summary == result.report.BatchSummary
        IN  /\ summary.SuccessfulBatches + summary.FailedBatches = summary.TotalBatches
            /\ summary.TotalBatches = Len(requests)
            /\ summary.TotalFindingsCount = Len(result.report.AuditFindings)

C15_Witness ==
    /\ Reported
    /\ result.report.BatchSummary.FailedBatches = 1
    /\ result.report.BatchSummary.SuccessfulBatches = 2
    /\ result.report.BatchSummary.TotalFindingsCount = 3

(***************************************************************************)
(* Backend output that is not JSON                                         *)
(***************************************************************************)

\* the batches whose backend exited with 0 and printed text that is not JSON
TextBatches == {i \in 1..Len(outcomes) : outcomes[i] = "text"}

\* C16: when the backend exits with 0 and its output does not parse, the
\* batch is recorded as a fallback entry carrying the raw text, nothing is
\* raised, the next batch is invoked, and the run returns an aggregated
\* report in which that batch is not counted as failed
C16_RawTextFallback ==
    \A i \in TextBatches :
        /\ all_batch_results[i] = RawOutputResult(i)
        /\ pc = "done" =>
              /\ i < Len(target_batches) => Len(requests) > i
              /\ result.kind = "report"
              /\ result.report.BatchSummary.FailedBatches = Len(FailedBatchIndexes)
              /\ \A k \in 1..Len(BatchErrorsOf(result.report)) :
                    BatchErrorsOf(result.report)[k].batch # i

(***************************************************************************)
(* The order of the backend invocations                                    *)
(***************************************************************************)

\* the invocations started and not yet ended
InFlight == Len(requests) - Len(outcomes)

\* where batch k of a run is: Pending before its invocation, Running while
\* the backend works on it, then Succeeded or Failed
BatchState(k) ==
    IF k > Len(requests) THEN "Pending"
    ELSE IF k > Len(outcomes) THEN "Running"
    ELSE IF outcomes[k] \in {"exit_nonzero", "transport_error"} THEN "Failed"
    ELSE "Succeeded"

\* what holds of the invocations made so far
SequentialSoFar ==
    /\ InFlight \in {0, 1}
    /\ \A k \in 1..Len(requests) :
          /\ k <= Len(target_batches)
          /\ requests[k].AuditTargets = target_batches[k]
          /\ k < Len(requests) => BatchState(k) \in {"Succeeded", "Failed"}

\* what holds of each step: an invocation starts only when none is in
\* flight, and a batch moves only from Pending to Running and from Running
\* to Succeeded or Failed, where it stays
SequentialStep ==
    /\ Len(requests') > Len(requests) => InFlight = 0
    /\ \A k \in 1..Len(requests') :
          \/ BatchState(k)' = BatchState(k)
          \/ BatchState(k) = "Pending" /\ BatchState(k)' = "Running"
          \/ BatchState(k) = "Running" /\ BatchState(k)' \in {"Succeeded", "Failed"}

SelectionOf(request) ==
    IF "Auditors" \in DOMAIN request THEN request.Auditors ELSE <<>>

\* the auditors argument names something outside the fixed set
NamesUnknownAuditor ==
    /\ IsStr(auditors)
    /\ Lower(auditors.str) # <<"a", "l", "l">>
    /\ \E i \in 1..Len(SplitOn(auditors.str, ",")) :
          /\ Strip(SplitOn(auditors.str, ",")[i]) # <<>>
          /\ Strip(SplitOn(auditors.str, ",")[i]) \notin AllowedAuditors

\* C18: the auditor list resolved from the auditors argument is empty, and
\* then the request has no Auditors member, or holds only names of the fixed
\* set; an argument with a name outside the set ends the call in a
\* validation error with no backend invocation; every batch request of a run
\* carries the same selection
C18_AuditorSelection ==
    /\ entry = "audit_services" =>
          /\ \A k \in 1..Len(requests) :
                /\ "Auditors" \in DOMAIN requests[k] => requests[k].Auditors # <<>>
                /\ \A a \in 1..Len(SelectionOf(requests[k])) :
                      SelectionOf(requests[k])[a] \in AllowedAuditors
          /\ NamesUnknownAuditor =>
                /\ requests = <<>>
                /\ pc \notin {"locate", "batch", "running", "aggregate"}
                /\ pc = "done" => result.kind = "error"
    /\ Batching =>
          \A k \in 1..Len(requests) :
              SelectionOf(requests[k]) = SelectionOf(requests[1])

\* a call with the argument "slo, trace" whose request carries the two names
C18_Witness ==
    /\ entry = "audit_services"
    /\ IsStr(auditors)
    /\ Len(requests) = 1
    /\ SelectionOf(requests[1]) = <<aSlo, <<"t","r","a","c","e">>>>

(***************************************************************************)
(* The requests sent to the backend                                        *)
(***************************************************************************)

\* C19: every request sent to the backend has EndTime > StartTime and a
\* non-empty AuditTargets list
C19_RequestInvariant ==
    \A k \in 1..Len(requests) :
        /\ requests[k].EndTime > requests[k].StartTime
        /\ requests[k].AuditTargets # <<>>

(***************************************************************************)
(* The name similarity scorer                                              *)
(***************************************************************************)

\* the scorer has returned
Scored == entry = "calculate_name_similarity" /\ pc = "done"

\* C20: the scorer returns 100 for a non-empty name scored against itself,
\* for either kind of name, and 0 for the empty name scored against any
\* candidate
C20_ScorerFixedPoints ==
    Scored =>
        /\ (scored.target_name # <<>> /\ scored.candidate_name = scored.target_name)
              => result.score = 100
        /\ scored.target_name = <<>> => result.score = 0

(***************************************************************************)
(* The misspelt service name                                               *)
(***************************************************************************)

\* the expander has returned the list for "oders-service" and the catalog of
\* orders-service, order-events and billing-service
ScenarioExpanded ==
    /\ entry = "expand_service_wildcard_patterns"
    /\ provided = <<RawService(nOdersService)>>
    /\ all_services = ScenarioCatalog
    /\ pc = "done"
    /\ expanded.ok

\* the names of the targets of the expanded list
ExpandedNames ==
    [j \in 1..Len(expanded.v) |-> EmittedName(expanded.v[j], "service").str]

\* names holds at most three catalog names, the better scoring first
RankedCandidates(names) ==
    /\ Len(names) <= 3
    /\ \A j \in 1..Len(names) :
          \E k \in 1..Len(ScenarioCatalog) : ScenarioCatalog[k].Name = names[j]
    /\ \A j \in 1..(Len(names) - 1) :
          calculate_name_similarity(nOdersService, names[j], "service")
              >= calculate_name_similarity(nOdersService, names[j + 1], "service")

\* C21: expanding "oders-service" against the catalog orders-service,
\* order-events, billing-service yields orders-service alone if it scores 85
\* or more, and otherwise up to 3 catalog candidates ranked by score
C21_MisspeltNameScenario ==
    ScenarioExpanded =>
        IF calculate_name_similarity(nOdersService, nOrdersService, "service") >= 85
        THEN ExpandedNames = <<nOrdersService>>
        ELSE RankedCandidates(ExpandedNames)

(***************************************************************************)
(* The type discriminant                                                   *)
(***************************************************************************)

\* the call was made with one target of TypeVariants and is past the
\* normalization
VariantNormalized ==
    /\ entry = "audit_services"
    /\ Len(provided) = 1
    /\ provided[1] \in TypeVariants
    /\ pc \notin {"time", "parse", "expand", "normalize"}

\* the key of t that carries the type
TypeKeyOf(t) == CHOOSE k \in TypeKeys : k \in DOMAIN t

\* the same target with the type in lower case under the key Type
PlainlyTyped(t) == Retyped(t, "Type", Lower(t[TypeKeyOf(t)].str))

\* C22: the type is resolved without regard to letter case and under any of
\* the keys Type, type and target_type, for the three target types: a raw
\* target is accepted, and yields the same canonical target, as the target
\* that differs from it only in carrying the type in lower case under Type
C22_TypeDiscriminant ==
    VariantNormalized =>
        /\ ~(pc = "done" /\ result.at = "normalize")
        /\ _normalize_targets(<<PlainlyTyped(provided[1])>>).ok
        /\ normalized_targets = _normalize_targets(<<PlainlyTyped(provided[1])>>).v

(***************************************************************************)
(* Normalizing twice                                                       *)
(***************************************************************************)

\* the normalization of the call has returned its list
Normalized ==
    /\ entry = "audit_services"
    /\ pc \notin {"time", "parse", "expand", "normalize"}
    /\ normalized_targets # <<>>

\* C23: normalizing is idempotent on its own output: normalizing the list
\* the normalization returned succeeds and returns the same list
C23_NormalizeIdempotent ==
    Normalized =>
        /\ _normalize_targets(normalized_targets).ok
        /\ _normalize_targets(normalized_targets).v = normalized_targets

(***************************************************************************)
(* The pages of the SLO listing                                            *)
(***************************************************************************)

\* the calls of the SLO listing made so far
SloListCalls ==
    SelectSeq(catalog_calls, LAMBDA c : c.api = "list_service_level_objectives")

\* an expansion that listed the SLOs, every call of the listing answering,
\* has returned its list
SloExpansionDone ==
    /\ entry \in {"audit_services", "expand_slo_wildcard_patterns"}
    /\ expanded # NotRun
    /\ expanded.ok
    /\ SloListCalls # <<>>
    /\ \A k \in 1..Len(SloListCalls) : SloListCalls[k].ok

\* the expanded list for the SLO catalog slos
ExpandedOver(slos) ==
    IF entry = "audit_services"
    THEN expand_wildcard_targets(provided, Response(TRUE, all_services),
                                 Response(TRUE, slos))
    ELSE expand_slo_wildcard_patterns(provided, Response(TRUE, slos))

\* C24: when SLO patterns or fuzzy candidates are present, the SLO catalog
\* the expansion works on is the concatenation, in page order, of all the
\* pages of the SLO listing, fetched by following NextToken with one call
\* per page until a page has none
C24_AllSloPagesMerged ==
    SloExpansionDone =>
        /\ Len(SloListCalls) = Len(slo_pages)
        /\ expanded = ExpandedOver(Flatten(slo_pages))

(***************************************************************************)
(* Wildcard targets with an Environment pattern                            *)
(***************************************************************************)

\* the expansion of the "EKS Services" target has returned its list
EksServicesExpanded ==
    /\ provided = <<EksServices>>
    /\ entry \in {"audit_services", "expand_service_wildcard_patterns"}
    /\ expanded # NotRun
    /\ expanded.ok

\* C25: a service wildcard target that carries an Environment pattern (Name
\* "*", Environment "eks:*") expands only to catalog services whose
\* Environment matches the pattern
C25_EnvironmentPatternFilters ==
    EksServicesExpanded =>
        \A j \in 1..Len(expanded.v) :
            /\ IsStr(EnvironmentOf(expanded.v[j]))
            /\ TermMatches(SearchTerm(eEksAll), EnvironmentOf(expanded.v[j]).str)

(***************************************************************************)
(* The index of a validation error                                         *)
(***************************************************************************)

\* the validation has rejected a target
ValidationRejected ==
    entry = "audit_services" /\ pc = "done" /\ result.at = "validate"

\* C26: the index of a validation error is the position, in the target list
\* the caller supplied, of the entry that was rejected, also when the list
\* was expanded before the validation
C26_ErrorIndexIsCallerPosition ==
    ValidationRejected =>
        /\ result.index \in 1..Len(provided)
        /\ NormalizeOne(provided[result.index]).ok
        /\ NormalizeOne(provided[result.index]).v = normalized_targets[result.index]

(***************************************************************************)
(* The operations a service-operation pattern expands to                   *)
(***************************************************************************)

\* expand_service_operation_wildcard_patterns has returned or raised
OperationExpansionDone ==
    entry = "expand_service_operation_wildcard_patterns" /\ pc = "done"

\* the positions of the patterns in the list the expander was given
OperationPatterns ==
    {i \in 1..Len(provided) :
        UtilsClassifyOperation(provided[i]).cls = "operation_pattern"}

\* no target of the list makes the first pass raise
WellFormedOperations ==
    \A i \in 1..Len(provided) : UtilsClassifyOperation(provided[i]).cls # "error"

\* the operation name matches the pattern: equality without a `*`, otherwise
\* containment of the lower-cased pattern without its outer `*`
NameQualifies(operation_pattern, operation_name) ==
    IF \A k \in 1..Len(operation_pattern) : operation_pattern[k] # "*"
    THEN operation_name = operation_pattern
    ELSE Contains(Lower(operation_name), Lower(StripChars(operation_pattern, {"*"})))

\* the operation exposes a metric reference of the requested type
MetricQualifies(operation, metric_type) ==
    metric_type \in {operation.MetricReferences[k] :
                        k \in 1..Len(operation.MetricReferences)}

\* the target of the pair (service at position i of the catalog, operation)
PairTarget(i, operation, metric_type) ==
    ServiceOperationTarget(GetS(all_services[i], "Name"),
                           Str(GetS(all_services[i], "Environment")),
                           Str(operation.Name), Str(metric_type))

\* the pairs (pattern, resolved service, operation): the pattern at
\* position x[1] of the list, the service at position x[2] of the catalog
\* and the operation at position x[3] of its operations
ResolvedPairs ==
    {x \in OperationPatterns \X (1..Len(all_services)) \X (1..Len(ServiceOperations)) :
        ServiceSideMatches(UtilsClassifyOperation(provided[x[1]]).service,
                           all_services[x[2]])}

\* the pair qualifies under its pattern
PairQualifies(x) ==
    /\ NameQualifies(UtilsClassifyOperation(provided[x[1]]).operation,
                     ServiceOperations[x[3]].Name)
    /\ MetricQualifies(ServiceOperations[x[3]],
                       UtilsClassifyOperation(provided[x[1]]).metric_type)

\* the targets the expansion emitted: what follows the targets passed through
EmittedOperations ==
    {expanded.v[k] :
        k \in (Len(provided) - Cardinality(OperationPatterns) + 1)..Len(expanded.v)}

\* the targets of the qualifying pairs
QualifyingTargets ==
    {PairTarget(x[2], ServiceOperations[x[3]],
                UtilsClassifyOperation(provided[x[1]]).metric_type) :
        x \in {y \in ResolvedPairs : PairQualifies(y)}}

\* every call of the run answered
AllCallsAnswered == \A k \in 1..Len(catalog_calls) : catalog_calls[k].ok

\* C27: the service-operation expansion emits the target of a pair
\* (resolved service, operation) exactly when the operation name matches the
\* Operation pattern and the operation has a metric reference of the
\* requested MetricType (Latency when none is requested); an operation that
\* does not qualify is skipped and the expansion does not raise
C27_OperationsQualify ==
    (OperationExpansionDone /\ WellFormedOperations /\ catalog_calls # <<>>
        /\ catalog_calls[1].ok) =>
        /\ result.kind = "expanded"
        /\ EmittedOperations \subseteq QualifyingTargets
        /\ AllCallsAnswered => EmittedOperations = QualifyingTargets

\* the pattern `*` of a target without MetricType was expanded: the operation
\* with a Latency metric was emitted, the one without it was skipped
C27_Witness ==
    /\ OperationExpansionDone /\ result.kind = "expanded" /\ AllCallsAnswered
    /\ \E x \in ResolvedPairs :
          /\ UtilsClassifyOperation(provided[x[1]]).operation = <<"*">>
          /\ PairQualifies(x)
    /\ \E x \in ResolvedPairs :
          /\ UtilsClassifyOperation(provided[x[1]]).operation = <<"*">>
          /\ ~MetricQualifies(ServiceOperations[x[3]], cLatency)
    /\ EmittedOperations # {}

(***************************************************************************)
(* Which batches count as failed                                           *)
(***************************************************************************)

\* the batch loop ran to its end and the aggregation has ended
AggregationEnded == Batching /\ pc = "done" /\ result.at = "aggregate"

\* the batches whose backend invocation exited non-zero
NonZeroExits == {i \in 1..Len(outcomes) : outcomes[i] = "exit_nonzero"}

\* C28: a batch is counted as failed exactly when its backend invocation
\* exited non-zero: whatever a zero-exit response carries (any JSON value,
\* an object with a top-level "error" member, text that is not JSON), it
\* does not raise FailedBatches, gives no BatchErrors entry and does not make
\* the aggregation raise
C28_OnlyNonZeroExitFails ==
    AggregationEnded =>
        /\ result.kind = "report"
        /\ result.report.BatchSummary.FailedBatches = Cardinality(NonZeroExits)
        /\ {BatchErrorsOf(result.report)[k].batch :
                k \in 1..Len(BatchErrorsOf(result.report))} = NonZeroExits

(***************************************************************************)
(* Fully specified targets in a list that is expanded                      *)
(***************************************************************************)

\* the Service object of a service target, empty for any other value
GivenService(t) ==
    IF /\ IsStr(GetD(t, "Type", None)) /\ Lower(GetD(t, "Type", None).str) = sService
       /\ IsDict(GetD(t, "Data", None))
       /\ IsDict(GetD(GetD(t, "Data", None).dict, "Service", None))
    THEN GetD(t, "Data", None).dict.Service.dict
    ELSE <<>>

\* a service target with a Name without `*` and an Environment
FullySpecified(t) ==
    /\ IsStr(GetD(GivenService(t), "Name", None))
    /\ GivenService(t).Name.str # <<>>
    /\ ~HasChar(GivenService(t).Name.str, "*")
    /\ Truthy(GetD(GivenService(t), "Environment", None))

\* the same Name, Environment and AwsAccountId
SameService(t, u) ==
    \A k \in {"Name", "Environment", "AwsAccountId"} :
        GetD(GivenService(t), k, None) = GetD(GivenService(u), k, None)

\* an expansion ran on a list with a wildcard and returned
WildcardListExpanded ==
    /\ entry \in {"audit_services", "expand_service_wildcard_patterns"}
    /\ WildcardsDetected(provided)
    /\ expanded # NotRun
    /\ expanded.ok

\* C29: an expansion that runs on a list with a wildcard leaves the fully
\* specified targets as they are: every service target whose Name has no `*`
\* and that carries an Environment is in the expanded list exactly once,
\* with the Name, Environment and AwsAccountId it was given
C29_FullySpecifiedUntouched ==
    WildcardListExpanded =>
        \A i \in 1..Len(provided) :
            FullySpecified(provided[i]) =>
                Cardinality({k \in 1..Len(expanded.v) :
                                /\ GivenService(expanded.v[k]) # <<>>
                                /\ SameService(expanded.v[k], provided[i])}) = 1

(***************************************************************************)
(* The trace summaries a paginated query returns                           *)
(***************************************************************************)

\* get_trace_summaries_paginated has returned
TracesReturned == entry = "get_trace_summaries_paginated" /\ pc = "done"

\* the last page call of the query raised
LastPageCallFailed == catalog_calls # <<>> /\ ~catalog_calls[Len(catalog_calls)].ok

\* the summaries of the first n pages
FirstPages(n) == Flatten([k \in 1..n |-> trace_pages[k]])

\* C30: get_trace_summaries_paginated returns at most max_traces trace
\* summaries, whatever the pages of the trace service are (of any sizes, with
\* or without a NextToken), and when a page call fails it returns the
\* summaries of the pages before it
C30_AtMostMaxTraces ==
    TracesReturned =>
        /\ Len(result.traces) <= max_traces
        /\ LastPageCallFailed => result.traces = FirstPages(Len(catalog_calls) - 1)

=============================================================================
